---- MODULE Spec2Model ----
(***************************************************************************)
(* Media cleanup: the Media Mapper (media_mapper.py) and the Cleanup       *)
(* Orchestrator (cleanup.py), with the three HTTP collaborators (the       *)
(* watch-state source, the movie catalog, the series catalog) as the       *)
(* environment.                                                            *)
(*                                                                         *)
(* Conventions                                                             *)
(*   - a Python str is a sequence of one-character strings;                *)
(*   - Optional[T] is a sequence of length 0 (None) or 1 (the value);      *)
(*   - a Python dict is a sequence of [k, v] records in insertion order;   *)
(*   - instants are whole days on the UTC timeline.                        *)
(***************************************************************************)
EXTENDS Integers, Sequences, FiniteSets, TLC

\* ---------------------------------------------------------------- values

None == <<>>
Some(x) == <<x>>
IsNone(o) == o = <<>>
Get(o) == o[1]

\* Python truthiness of an Optional[int] (None and 0 are falsy).
TruthyInt(o) == o # <<>> /\ o[1] # 0

\* Python truthiness of an Optional[str] (None and "" are falsy).
TruthyStr(o) == o # <<>> /\ o[1] # <<>>

Range(s) == {s[i] : i \in 1..Len(s)}

\* ---------------------------------------------------------------- strings

Digits == <<"0","1","2","3","4","5","6","7","8","9">>

\* str(n) for an int n >= 0
RECURSIVE StrOfNat(_)
StrOfNat(n) ==
  IF n < 10 THEN <<Digits[n + 1]>>
  ELSE StrOfNat(n \div 10) \o <<Digits[(n % 10) + 1]>>

\* str(n) for an int n
StrOfInt(n) == IF n < 0 THEN <<"-">> \o StrOfNat(-n) ELSE StrOfNat(n)

\* str(x) for an Optional[int]: str(None) is "None"
StrOfOptInt(o) == IF o = <<>> THEN <<"N","o","n","e">> ELSE StrOfNat(o[1])

\* Whether s has the substring old at position i.
HasAt(s, old, i) ==
  /\ i + Len(old) - 1 <= Len(s)
  /\ \A j \in 1..Len(old) : s[i + j - 1] = old[j]

\* str.replace(old, ""): every non-overlapping occurrence of old, scanning
\* left to right, is removed; an empty old leaves the string as it is.
RECURSIVE RemoveAllFrom(_, _, _)
RemoveAllFrom(s, old, i) ==
  IF i > Len(s) THEN <<>>
  ELSE IF HasAt(s, old, i) THEN RemoveAllFrom(s, old, i + Len(old))
  ELSE <<s[i]>> \o RemoveAllFrom(s, old, i + 1)

RemoveAll(s, old) == IF old = <<>> THEN s ELSE RemoveAllFrom(s, old, 1)

HexDigits == <<"0","1","2","3","4","5","6","7","8","9",
               "a","b","c","d","e","f","A","B","C","D","E","F">>
IsHex(c) == \E i \in 1..Len(HexDigits) : HexDigits[i] = c
HexVal(c) ==
  LET i == CHOOSE k \in 1..Len(HexDigits) : HexDigits[k] = c
  IN IF i <= 16 THEN i - 1 ELSE i - 7

\* The printable ASCII characters, code 32 first.
Ascii == <<" ","!","DQUOTE","#","$","%","&","'","(",")","*","+",",","-",".","/",
           "0","1","2","3","4","5","6","7","8","9",":",";","<","=",">","?",
           "@","A","B","C","D","E","F","G","H","I","J","K","L","M","N","O",
           "P","Q","R","S","T","U","V","W","X","Y","Z","[","BACKSLASH","]","^","_",
           "BACKTICK","a","b","c","d","e","f","g","h","i","j","k","l","m","n","o",
           "p","q","r","s","t","u","v","w","x","y","z","{","|","}","~">>

\* chr(n) for a code point outside printable ASCII, by its name: U+ and the
\* code point in hexadecimal, four digits at least.
UpperHex == <<"0","1","2","3","4","5","6","7","8","9","A","B","C","D","E","F">>
RECURSIVE HexOf(_, _)
HexOf(n, width) ==
  IF width <= 1 /\ n < 16 THEN UpperHex[n + 1]
  ELSE HexOf(n \div 16, width - 1) \o UpperHex[(n % 16) + 1]
CodePoint(n) == "U+" \o HexOf(n, 4)

\* chr(b): the character of a code point, by its name.
Chr(b) == IF b >= 32 /\ b <= 126 THEN Ascii[b - 31] ELSE CodePoint(b)

\* ord(c) of a character, from its name.
RECURSIVE HexFrom(_, _, _)
HexFrom(name, i, acc) ==
  IF i > Len(name) THEN acc
  ELSE HexFrom(name, i + 1, 16 * acc + HexVal(SubSeq(name, i, i)))
Ord(c) ==
  IF \E i \in 1..Len(Ascii) : Ascii[i] = c
  THEN 31 + (CHOOSE i \in 1..Len(Ascii) : Ascii[i] = c)
  ELSE HexFrom(c, 3, 0)

\* n lies in one of the ranges <<first, last, step, ...>>.
InRanges(n, ranges) ==
  \E k \in 1..Len(ranges) :
     ranges[k][1] <= n /\ n <= ranges[k][2] /\ (n - ranges[k][1]) % ranges[k][3] = 0

\* The code points str.lower() changes into one other code point, as ranges
\* <<first, last, step, offset of the lowercase>> (the Unicode database of
\* the interpreter).
LowerRanges ==
  <<<<65,90,1,32>>, <<192,214,1,32>>, <<216,222,1,32>>, <<256,302,2,1>>, <<306,310,2,1>>,
    <<313,327,2,1>>, <<330,374,2,1>>, <<376,376,1,-121>>, <<377,381,2,1>>, <<385,385,1,210>>,
    <<386,388,2,1>>, <<390,390,1,206>>, <<391,391,1,1>>, <<393,394,1,205>>, <<395,395,1,1>>,
    <<398,398,1,79>>, <<399,399,1,202>>, <<400,400,1,203>>, <<401,401,1,1>>, <<403,403,1,205>>,
    <<404,404,1,207>>, <<406,406,1,211>>, <<407,407,1,209>>, <<408,408,1,1>>, <<412,412,1,211>>,
    <<413,413,1,213>>, <<415,415,1,214>>, <<416,420,2,1>>, <<422,422,1,218>>, <<423,423,1,1>>,
    <<425,425,1,218>>, <<428,428,1,1>>, <<430,430,1,218>>, <<431,431,1,1>>, <<433,434,1,217>>,
    <<435,437,2,1>>, <<439,439,1,219>>, <<440,440,1,1>>, <<444,444,1,1>>, <<452,452,1,2>>,
    <<453,453,1,1>>, <<455,455,1,2>>, <<456,456,1,1>>, <<458,458,1,2>>, <<459,475,2,1>>,
    <<478,494,2,1>>, <<497,497,1,2>>, <<498,500,2,1>>, <<502,502,1,-97>>, <<503,503,1,-56>>,
    <<504,542,2,1>>, <<544,544,1,-130>>, <<546,562,2,1>>, <<570,570,1,10795>>, <<571,571,1,1>>,
    <<573,573,1,-163>>, <<574,574,1,10792>>, <<577,577,1,1>>, <<579,579,1,-195>>,
    <<580,580,1,69>>, <<581,581,1,71>>, <<582,590,2,1>>, <<880,882,2,1>>, <<886,886,1,1>>,
    <<895,895,1,116>>, <<902,902,1,38>>, <<904,906,1,37>>, <<908,908,1,64>>, <<910,911,1,63>>,
    <<913,929,1,32>>, <<931,939,1,32>>, <<975,975,1,8>>, <<984,1006,2,1>>, <<1012,1012,1,-60>>,
    <<1015,1015,1,1>>, <<1017,1017,1,-7>>, <<1018,1018,1,1>>, <<1021,1023,1,-130>>,
    <<1024,1039,1,80>>, <<1040,1071,1,32>>, <<1120,1152,2,1>>, <<1162,1214,2,1>>,
    <<1216,1216,1,15>>, <<1217,1229,2,1>>, <<1232,1326,2,1>>, <<1329,1366,1,48>>,
    <<4256,4293,1,7264>>, <<4295,4295,1,7264>>, <<4301,4301,1,7264>>, <<5024,5103,1,38864>>,
    <<5104,5109,1,8>>, <<7312,7354,1,-3008>>, <<7357,7359,1,-3008>>, <<7680,7828,2,1>>,
    <<7838,7838,1,-7615>>, <<7840,7934,2,1>>, <<7944,7951,1,-8>>, <<7960,7965,1,-8>>,
    <<7976,7983,1,-8>>, <<7992,7999,1,-8>>, <<8008,8013,1,-8>>, <<8025,8031,2,-8>>,
    <<8040,8047,1,-8>>, <<8072,8079,1,-8>>, <<8088,8095,1,-8>>, <<8104,8111,1,-8>>,
    <<8120,8121,1,-8>>, <<8122,8123,1,-74>>, <<8124,8124,1,-9>>, <<8136,8139,1,-86>>,
    <<8140,8140,1,-9>>, <<8152,8153,1,-8>>, <<8154,8155,1,-100>>, <<8168,8169,1,-8>>,
    <<8170,8171,1,-112>>, <<8172,8172,1,-7>>, <<8184,8185,1,-128>>, <<8186,8187,1,-126>>,
    <<8188,8188,1,-9>>, <<8486,8486,1,-7517>>, <<8490,8490,1,-8383>>, <<8491,8491,1,-8262>>,
    <<8498,8498,1,28>>, <<8544,8559,1,16>>, <<8579,8579,1,1>>, <<9398,9423,1,26>>,
    <<11264,11311,1,48>>, <<11360,11360,1,1>>, <<11362,11362,1,-10743>>, <<11363,11363,1,-3814>>,
    <<11364,11364,1,-10727>>, <<11367,11371,2,1>>, <<11373,11373,1,-10780>>,
    <<11374,11374,1,-10749>>, <<11375,11375,1,-10783>>, <<11376,11376,1,-10782>>,
    <<11378,11378,1,1>>, <<11381,11381,1,1>>, <<11390,11391,1,-10815>>, <<11392,11490,2,1>>,
    <<11499,11501,2,1>>, <<11506,11506,1,1>>, <<42560,42604,2,1>>, <<42624,42650,2,1>>,
    <<42786,42798,2,1>>, <<42802,42862,2,1>>, <<42873,42875,2,1>>, <<42877,42877,1,-35332>>,
    <<42878,42886,2,1>>, <<42891,42891,1,1>>, <<42893,42893,1,-42280>>, <<42896,42898,2,1>>,
    <<42902,42920,2,1>>, <<42922,42922,1,-42308>>, <<42923,42923,1,-42319>>,
    <<42924,42924,1,-42315>>, <<42925,42925,1,-42305>>, <<42926,42926,1,-42308>>,
    <<42928,42928,1,-42258>>, <<42929,42929,1,-42282>>, <<42930,42930,1,-42261>>,
    <<42931,42931,1,928>>, <<42932,42946,2,1>>, <<42948,42948,1,-48>>, <<42949,42949,1,-42307>>,
    <<42950,42950,1,-35384>>, <<42951,42953,2,1>>, <<42960,42960,1,1>>, <<42966,42968,2,1>>,
    <<42997,42997,1,1>>, <<65313,65338,1,32>>, <<66560,66599,1,40>>, <<66736,66771,1,40>>,
    <<66928,66938,1,39>>, <<66940,66954,1,39>>, <<66956,66962,1,39>>, <<66964,66965,1,39>>,
    <<68736,68786,1,64>>, <<71840,71871,1,32>>, <<93760,93791,1,32>>, <<125184,125217,1,34>>>>

\* The case-ignorable code points, and the cased code points that are not
\* case-ignorable, as ranges <<first, last, step>>.
CaseIgnorableRanges ==
  <<<<39,39,1>>, <<46,46,1>>, <<58,58,1>>, <<94,96,2>>, <<168,168,1>>, <<173,175,2>>,
    <<180,180,1>>, <<183,184,1>>, <<688,879,1>>, <<884,885,1>>, <<890,890,1>>, <<900,901,1>>,
    <<903,903,1>>, <<1155,1161,1>>, <<1369,1369,1>>, <<1375,1375,1>>, <<1425,1469,1>>,
    <<1471,1473,2>>, <<1474,1476,2>>, <<1477,1479,2>>, <<1524,1524,1>>, <<1536,1541,1>>,
    <<1552,1562,1>>, <<1564,1564,1>>, <<1600,1600,1>>, <<1611,1631,1>>, <<1648,1648,1>>,
    <<1750,1757,1>>, <<1759,1768,1>>, <<1770,1773,1>>, <<1807,1809,2>>, <<1840,1866,1>>,
    <<1958,1968,1>>, <<2027,2037,1>>, <<2042,2042,1>>, <<2045,2045,1>>, <<2070,2093,1>>,
    <<2137,2139,1>>, <<2184,2184,1>>, <<2192,2193,1>>, <<2200,2207,1>>, <<2249,2306,1>>,
    <<2362,2364,2>>, <<2369,2376,1>>, <<2381,2381,1>>, <<2385,2391,1>>, <<2402,2403,1>>,
    <<2417,2417,1>>, <<2433,2433,1>>, <<2492,2492,1>>, <<2497,2500,1>>, <<2509,2509,1>>,
    <<2530,2531,1>>, <<2558,2558,1>>, <<2561,2562,1>>, <<2620,2620,1>>, <<2625,2626,1>>,
    <<2631,2632,1>>, <<2635,2637,1>>, <<2641,2641,1>>, <<2672,2673,1>>, <<2677,2677,1>>,
    <<2689,2690,1>>, <<2748,2748,1>>, <<2753,2757,1>>, <<2759,2760,1>>, <<2765,2765,1>>,
    <<2786,2787,1>>, <<2810,2815,1>>, <<2817,2817,1>>, <<2876,2876,1>>, <<2879,2881,2>>,
    <<2882,2884,1>>, <<2893,2893,1>>, <<2901,2902,1>>, <<2914,2915,1>>, <<2946,2946,1>>,
    <<3008,3008,1>>, <<3021,3021,1>>, <<3072,3072,1>>, <<3076,3076,1>>, <<3132,3134,2>>,
    <<3135,3136,1>>, <<3142,3144,1>>, <<3146,3149,1>>, <<3157,3158,1>>, <<3170,3171,1>>,
    <<3201,3201,1>>, <<3260,3260,1>>, <<3263,3263,1>>, <<3270,3270,1>>, <<3276,3277,1>>,
    <<3298,3299,1>>, <<3328,3329,1>>, <<3387,3388,1>>, <<3393,3396,1>>, <<3405,3405,1>>,
    <<3426,3427,1>>, <<3457,3457,1>>, <<3530,3530,1>>, <<3538,3540,1>>, <<3542,3542,1>>,
    <<3633,3633,1>>, <<3636,3642,1>>, <<3654,3662,1>>, <<3761,3761,1>>, <<3764,3772,1>>,
    <<3782,3784,2>>, <<3785,3789,1>>, <<3864,3865,1>>, <<3893,3897,2>>, <<3953,3966,1>>,
    <<3968,3972,1>>, <<3974,3975,1>>, <<3981,3991,1>>, <<3993,4028,1>>, <<4038,4038,1>>,
    <<4141,4144,1>>, <<4146,4151,1>>, <<4153,4154,1>>, <<4157,4158,1>>, <<4184,4185,1>>,
    <<4190,4192,1>>, <<4209,4212,1>>, <<4226,4226,1>>, <<4229,4230,1>>, <<4237,4237,1>>,
    <<4253,4253,1>>, <<4348,4348,1>>, <<4957,4959,1>>, <<5906,5908,1>>, <<5938,5939,1>>,
    <<5970,5971,1>>, <<6002,6003,1>>, <<6068,6069,1>>, <<6071,6077,1>>, <<6086,6086,1>>,
    <<6089,6099,1>>, <<6103,6103,1>>, <<6109,6109,1>>, <<6155,6159,1>>, <<6211,6211,1>>,
    <<6277,6278,1>>, <<6313,6313,1>>, <<6432,6434,1>>, <<6439,6440,1>>, <<6450,6450,1>>,
    <<6457,6459,1>>, <<6679,6680,1>>, <<6683,6683,1>>, <<6742,6744,2>>, <<6745,6750,1>>,
    <<6752,6754,2>>, <<6757,6764,1>>, <<6771,6780,1>>, <<6783,6783,1>>, <<6823,6823,1>>,
    <<6832,6862,1>>, <<6912,6915,1>>, <<6964,6966,2>>, <<6967,6970,1>>, <<6972,6972,1>>,
    <<6978,6978,1>>, <<7019,7027,1>>, <<7040,7041,1>>, <<7074,7077,1>>, <<7080,7081,1>>,
    <<7083,7085,1>>, <<7142,7144,2>>, <<7145,7145,1>>, <<7149,7151,2>>, <<7152,7153,1>>,
    <<7212,7219,1>>, <<7222,7223,1>>, <<7288,7293,1>>, <<7376,7378,1>>, <<7380,7392,1>>,
    <<7394,7400,1>>, <<7405,7405,1>>, <<7412,7412,1>>, <<7416,7417,1>>, <<7468,7530,1>>,
    <<7544,7544,1>>, <<7579,7679,1>>, <<8125,8127,2>>, <<8128,8129,1>>, <<8141,8143,1>>,
    <<8157,8159,1>>, <<8173,8175,1>>, <<8189,8190,1>>, <<8203,8207,1>>, <<8216,8217,1>>,
    <<8228,8228,1>>, <<8231,8231,1>>, <<8234,8238,1>>, <<8288,8292,1>>, <<8294,8303,1>>,
    <<8305,8305,1>>, <<8319,8319,1>>, <<8336,8348,1>>, <<8400,8432,1>>, <<11388,11389,1>>,
    <<11503,11505,1>>, <<11631,11631,1>>, <<11647,11647,1>>, <<11744,11775,1>>,
    <<11823,11823,1>>, <<12293,12293,1>>, <<12330,12333,1>>, <<12337,12341,1>>,
    <<12347,12347,1>>, <<12441,12446,1>>, <<12540,12542,1>>, <<40981,40981,1>>,
    <<42232,42237,1>>, <<42508,42508,1>>, <<42607,42610,1>>, <<42612,42621,1>>,
    <<42623,42623,1>>, <<42652,42655,1>>, <<42736,42737,1>>, <<42752,42785,1>>,
    <<42864,42864,1>>, <<42888,42890,1>>, <<42994,42996,1>>, <<43000,43001,1>>,
    <<43010,43010,1>>, <<43014,43014,1>>, <<43019,43019,1>>, <<43045,43046,1>>,
    <<43052,43052,1>>, <<43204,43205,1>>, <<43232,43249,1>>, <<43263,43263,1>>,
    <<43302,43309,1>>, <<43335,43345,1>>, <<43392,43394,1>>, <<43443,43443,1>>,
    <<43446,43449,1>>, <<43452,43453,1>>, <<43471,43471,1>>, <<43493,43494,1>>,
    <<43561,43566,1>>, <<43569,43570,1>>, <<43573,43574,1>>, <<43587,43587,1>>,
    <<43596,43596,1>>, <<43632,43632,1>>, <<43644,43644,1>>, <<43696,43698,2>>,
    <<43699,43700,1>>, <<43703,43704,1>>, <<43710,43711,1>>, <<43713,43713,1>>,
    <<43741,43741,1>>, <<43756,43757,1>>, <<43763,43764,1>>, <<43766,43766,1>>,
    <<43867,43871,1>>, <<43881,43883,1>>, <<44005,44005,1>>, <<44008,44008,1>>,
    <<44013,44013,1>>, <<64286,64286,1>>, <<64434,64450,1>>, <<65024,65039,1>>,
    <<65043,65043,1>>, <<65056,65071,1>>, <<65106,65106,1>>, <<65109,65109,1>>,
    <<65279,65279,1>>, <<65287,65287,1>>, <<65294,65294,1>>, <<65306,65306,1>>,
    <<65342,65344,2>>, <<65392,65392,1>>, <<65438,65439,1>>, <<65507,65507,1>>,
    <<65529,65531,1>>, <<66045,66045,1>>, <<66272,66272,1>>, <<66422,66426,1>>,
    <<67456,67461,1>>, <<67463,67504,1>>, <<67506,67514,1>>, <<68097,68099,1>>,
    <<68101,68102,1>>, <<68108,68111,1>>, <<68152,68154,1>>, <<68159,68159,1>>,
    <<68325,68326,1>>, <<68900,68903,1>>, <<69291,69292,1>>, <<69446,69456,1>>,
    <<69506,69509,1>>, <<69633,69633,1>>, <<69688,69702,1>>, <<69744,69744,1>>,
    <<69747,69748,1>>, <<69759,69761,1>>, <<69811,69814,1>>, <<69817,69818,1>>,
    <<69821,69821,1>>, <<69826,69826,1>>, <<69837,69837,1>>, <<69888,69890,1>>,
    <<69927,69931,1>>, <<69933,69940,1>>, <<70003,70003,1>>, <<70016,70017,1>>,
    <<70070,70078,1>>, <<70089,70092,1>>, <<70095,70095,1>>, <<70191,70193,1>>,
    <<70196,70198,2>>, <<70199,70199,1>>, <<70206,70206,1>>, <<70367,70367,1>>,
    <<70371,70378,1>>, <<70400,70401,1>>, <<70459,70460,1>>, <<70464,70464,1>>,
    <<70502,70508,1>>, <<70512,70516,1>>, <<70712,70719,1>>, <<70722,70724,1>>,
    <<70726,70726,1>>, <<70750,70750,1>>, <<70835,70840,1>>, <<70842,70842,1>>,
    <<70847,70848,1>>, <<70850,70851,1>>, <<71090,71093,1>>, <<71100,71101,1>>,
    <<71103,71104,1>>, <<71132,71133,1>>, <<71219,71226,1>>, <<71229,71231,2>>,
    <<71232,71232,1>>, <<71339,71341,2>>, <<71344,71349,1>>, <<71351,71351,1>>,
    <<71453,71455,1>>, <<71458,71461,1>>, <<71463,71467,1>>, <<71727,71735,1>>,
    <<71737,71738,1>>, <<71995,71996,1>>, <<71998,71998,1>>, <<72003,72003,1>>,
    <<72148,72151,1>>, <<72154,72155,1>>, <<72160,72160,1>>, <<72193,72202,1>>,
    <<72243,72248,1>>, <<72251,72254,1>>, <<72263,72263,1>>, <<72273,72278,1>>,
    <<72281,72283,1>>, <<72330,72342,1>>, <<72344,72345,1>>, <<72752,72758,1>>,
    <<72760,72765,1>>, <<72767,72767,1>>, <<72850,72871,1>>, <<72874,72880,1>>,
    <<72882,72883,1>>, <<72885,72886,1>>, <<73009,73014,1>>, <<73018,73020,2>>,
    <<73021,73023,2>>, <<73024,73029,1>>, <<73031,73031,1>>, <<73104,73105,1>>,
    <<73109,73111,2>>, <<73459,73460,1>>, <<78896,78904,1>>, <<92912,92916,1>>,
    <<92976,92982,1>>, <<92992,92995,1>>, <<94031,94031,1>>, <<94095,94111,1>>,
    <<94176,94177,1>>, <<94179,94180,1>>, <<110576,110579,1>>, <<110581,110587,1>>,
    <<110589,110590,1>>, <<113821,113822,1>>, <<113824,113827,1>>, <<118528,118573,1>>,
    <<118576,118598,1>>, <<119143,119145,1>>, <<119155,119170,1>>, <<119173,119179,1>>,
    <<119210,119213,1>>, <<119362,119364,1>>, <<121344,121398,1>>, <<121403,121452,1>>,
    <<121461,121461,1>>, <<121476,121476,1>>, <<121499,121503,1>>, <<121505,121519,1>>,
    <<122880,122886,1>>, <<122888,122904,1>>, <<122907,122913,1>>, <<122915,122916,1>>,
    <<122918,122922,1>>, <<123184,123197,1>>, <<123566,123566,1>>, <<123628,123631,1>>,
    <<125136,125142,1>>, <<125252,125259,1>>, <<127995,127999,1>>, <<917505,917505,1>>,
    <<917536,917631,1>>, <<917760,917999,1>>>>

CasedRanges ==
  <<<<65,90,1>>, <<97,122,1>>, <<170,170,1>>, <<181,181,1>>, <<186,186,1>>, <<192,214,1>>,
    <<216,246,1>>, <<248,442,1>>, <<444,447,1>>, <<452,659,1>>, <<661,687,1>>, <<880,883,1>>,
    <<886,887,1>>, <<891,893,1>>, <<895,895,1>>, <<902,904,2>>, <<905,906,1>>, <<908,910,2>>,
    <<911,929,1>>, <<931,1013,1>>, <<1015,1153,1>>, <<1162,1327,1>>, <<1329,1366,1>>,
    <<1376,1416,1>>, <<4256,4293,1>>, <<4295,4295,1>>, <<4301,4301,1>>, <<4304,4346,1>>,
    <<4349,4351,1>>, <<5024,5109,1>>, <<5112,5117,1>>, <<7296,7304,1>>, <<7312,7354,1>>,
    <<7357,7359,1>>, <<7424,7467,1>>, <<7531,7543,1>>, <<7545,7578,1>>, <<7680,7957,1>>,
    <<7960,7965,1>>, <<7968,8005,1>>, <<8008,8013,1>>, <<8016,8023,1>>, <<8025,8031,2>>,
    <<8032,8061,1>>, <<8064,8116,1>>, <<8118,8124,1>>, <<8126,8126,1>>, <<8130,8132,1>>,
    <<8134,8140,1>>, <<8144,8147,1>>, <<8150,8155,1>>, <<8160,8172,1>>, <<8178,8180,1>>,
    <<8182,8188,1>>, <<8450,8450,1>>, <<8455,8455,1>>, <<8458,8467,1>>, <<8469,8469,1>>,
    <<8473,8477,1>>, <<8484,8490,2>>, <<8491,8493,1>>, <<8495,8500,1>>, <<8505,8505,1>>,
    <<8508,8511,1>>, <<8517,8521,1>>, <<8526,8526,1>>, <<8544,8575,1>>, <<8579,8580,1>>,
    <<9398,9449,1>>, <<11264,11387,1>>, <<11390,11492,1>>, <<11499,11502,1>>, <<11506,11507,1>>,
    <<11520,11557,1>>, <<11559,11559,1>>, <<11565,11565,1>>, <<42560,42605,1>>,
    <<42624,42651,1>>, <<42786,42863,1>>, <<42865,42887,1>>, <<42891,42894,1>>,
    <<42896,42954,1>>, <<42960,42961,1>>, <<42963,42965,2>>, <<42966,42969,1>>,
    <<42997,42998,1>>, <<43002,43002,1>>, <<43824,43866,1>>, <<43872,43880,1>>,
    <<43888,43967,1>>, <<64256,64262,1>>, <<64275,64279,1>>, <<65313,65338,1>>,
    <<65345,65370,1>>, <<66560,66639,1>>, <<66736,66771,1>>, <<66776,66811,1>>,
    <<66928,66938,1>>, <<66940,66954,1>>, <<66956,66962,1>>, <<66964,66965,1>>,
    <<66967,66977,1>>, <<66979,66993,1>>, <<66995,67001,1>>, <<67003,67004,1>>,
    <<68736,68786,1>>, <<68800,68850,1>>, <<71840,71903,1>>, <<93760,93823,1>>,
    <<119808,119892,1>>, <<119894,119964,1>>, <<119966,119967,1>>, <<119970,119970,1>>,
    <<119973,119974,1>>, <<119977,119980,1>>, <<119982,119993,1>>, <<119995,119997,2>>,
    <<119998,120003,1>>, <<120005,120069,1>>, <<120071,120074,1>>, <<120077,120084,1>>,
    <<120086,120092,1>>, <<120094,120121,1>>, <<120123,120126,1>>, <<120128,120132,1>>,
    <<120134,120134,1>>, <<120138,120144,1>>, <<120146,120485,1>>, <<120488,120512,1>>,
    <<120514,120538,1>>, <<120540,120570,1>>, <<120572,120596,1>>, <<120598,120628,1>>,
    <<120630,120654,1>>, <<120656,120686,1>>, <<120688,120712,1>>, <<120714,120744,1>>,
    <<120746,120770,1>>, <<120772,120779,1>>, <<122624,122633,1>>, <<122635,122654,1>>,
    <<125184,125251,1>>, <<127280,127305,1>>, <<127312,127337,1>>, <<127344,127369,1>>>>

\* The lowercase of one code point other than U+0130 and U+03A3.
LowerCode(n) ==
  IF InRanges(n, LowerRanges)
  THEN n + LowerRanges[CHOOSE k \in 1..Len(LowerRanges) : InRanges(n, <<LowerRanges[k]>>)][4]
  ELSE n

\* The nearest position at or before j (at or after j) whose character is
\* not case-ignorable; 0 (Len(s) + 1) when there is none.
RECURSIVE SkipBack(_, _)
SkipBack(s, j) ==
  IF j < 1 THEN 0
  ELSE IF InRanges(Ord(s[j]), CaseIgnorableRanges) THEN SkipBack(s, j - 1) ELSE j
RECURSIVE SkipForward(_, _)
SkipForward(s, j) ==
  IF j > Len(s) THEN Len(s) + 1
  ELSE IF InRanges(Ord(s[j]), CaseIgnorableRanges) THEN SkipForward(s, j + 1) ELSE j

\* The capital sigma at position i ends a word: a cased character before it
\* and none after it, case-ignorable characters skipped.
FinalSigma(s, i) ==
  LET before == SkipBack(s, i - 1)
      after == SkipForward(s, i + 1)
  IN /\ before > 0 /\ InRanges(Ord(s[before]), CasedRanges)
     /\ after > Len(s) \/ ~InRanges(Ord(s[after]), CasedRanges)

\* str.lower() on the character at position i of s: U+0130 becomes two
\* characters, the capital sigma the final or the medial small sigma.
LowerAt(s, i) ==
  IF s[i] = "U+03A3" THEN <<IF FinalSigma(s, i) THEN "U+03C2" ELSE "U+03C3">>
  ELSE IF s[i] = "U+0130" THEN <<"i", "U+0307">>
  ELSE <<Chr(LowerCode(Ord(s[i])))>>

RECURSIVE LowerFrom(_, _)
LowerFrom(s, i) == IF i > Len(s) THEN <<>> ELSE LowerAt(s, i) \o LowerFrom(s, i + 1)

Upper == <<"A","B","C","D","E","F","G","H","I","J","K","L","M",
           "N","O","P","Q","R","S","T","U","V","W","X","Y","Z">>
Lower == <<"a","b","c","d","e","f","g","h","i","j","k","l","m",
           "n","o","p","q","r","s","t","u","v","w","x","y","z">>

\* str.lower() on one character of printable ASCII.
LowerChar(c) ==
  IF \E i \in 1..Len(Upper) : Upper[i] = c
  THEN Lower[CHOOSE i \in 1..Len(Upper) : Upper[i] = c]
  ELSE c

\* str.lower(): a string of one-letter names is printable ASCII and is
\* lowered letter by letter; any other goes through the Unicode tables.
StrLower(s) ==
  IF \A i \in 1..Len(s) : Len(s[i]) = 1
  THEN [i \in 1..Len(s) |-> LowerChar(s[i])]
  ELSE LowerFrom(s, 1)

\* The code points of the zero of each set of decimal digits beyond ASCII,
\* and the white space beyond ASCII.
DecimalZeros ==
  {1632, 1776, 1984, 2406, 2534, 2662, 2790, 2918, 3046, 3174, 3302, 3430, 3558, 3664, 3792,
   3872, 4160, 4240, 6112, 6160, 6470, 6608, 6784, 6800, 6992, 7088, 7232, 7248, 42528, 43216,
   43264, 43472, 43504, 43600, 44016, 65296, 66720, 68912, 69734, 69872, 69942, 70096, 70384,
   70736, 70864, 71248, 71360, 71472, 71904, 72016, 72784, 73040, 73120, 92768, 92864, 93008,
   120782, 120792, 120802, 120812, 120822, 123200, 123632, 125264, 130032}
UnicodeSpaces == {133, 160, 5760, 8232, 8233, 8239, 8287, 12288} \cup (8192..8202)

\* Position i of s starts an escape %XX, and the byte it stands for.
EscapeAt(s, i) ==
  i + 2 <= Len(s) /\ s[i] = "%" /\ IsHex(s[i + 1]) /\ IsHex(s[i + 2])
ByteAt(s, i) == 16 * HexVal(s[i + 1]) + HexVal(s[i + 2])

\* Position i of s starts an escape whose byte continues a UTF-8 sequence.
ContinuesAt(s, i, lo, hi) == EscapeAt(s, i) /\ ByteAt(s, i) >= lo /\ ByteAt(s, i) <= hi

\* The six low bits of the continuation byte at position i.
Low6(s, i) == ByteAt(s, i) - 128

\* urllib.parse.unquote: each run of %XX escapes is decoded as UTF-8 with
\* errors='replace', in one pass; any other character, a % that starts no
\* escape included, is kept as it is. A byte below 0x80 is its character; a
\* well-formed sequence of two to four bytes is one character; a byte that
\* starts no well-formed sequence, or the well-formed start of a sequence
\* that is not continued, is replaced by one U+FFFD.
RECURSIVE UnquoteFrom(_, _)
UnquoteFrom(s, i) ==
  IF i > Len(s) THEN <<>>
  ELSE IF ~EscapeAt(s, i) THEN <<s[i]>> \o UnquoteFrom(s, i + 1)
  ELSE LET b == ByteAt(s, i)
           lo == IF b = 224 THEN 160 ELSE IF b = 240 THEN 144 ELSE 128
           hi == IF b = 237 THEN 159 ELSE IF b = 244 THEN 143 ELSE 191
       IN IF b < 128 THEN <<Chr(b)>> \o UnquoteFrom(s, i + 3)
          ELSE IF b >= 194 /\ b <= 223
          THEN IF ~ContinuesAt(s, i + 3, 128, 191)
               THEN <<"U+FFFD">> \o UnquoteFrom(s, i + 3)
               ELSE <<CodePoint((b - 192) * 64 + Low6(s, i + 3))>>
                    \o UnquoteFrom(s, i + 6)
          ELSE IF b >= 224 /\ b <= 239
          THEN IF ~ContinuesAt(s, i + 3, lo, hi)
               THEN <<"U+FFFD">> \o UnquoteFrom(s, i + 3)
               ELSE IF ~ContinuesAt(s, i + 6, 128, 191)
               THEN <<"U+FFFD">> \o UnquoteFrom(s, i + 6)
               ELSE <<CodePoint((b - 224) * 4096 + Low6(s, i + 3) * 64
                                + Low6(s, i + 6))>>
                    \o UnquoteFrom(s, i + 9)
          ELSE IF b >= 240 /\ b <= 244
          THEN IF ~ContinuesAt(s, i + 3, lo, hi)
               THEN <<"U+FFFD">> \o UnquoteFrom(s, i + 3)
               ELSE IF ~ContinuesAt(s, i + 6, 128, 191)
               THEN <<"U+FFFD">> \o UnquoteFrom(s, i + 6)
               ELSE IF ~ContinuesAt(s, i + 9, 128, 191)
               THEN <<"U+FFFD">> \o UnquoteFrom(s, i + 9)
               ELSE <<CodePoint((b - 240) * 262144 + Low6(s, i + 3) * 4096
                                + Low6(s, i + 6) * 64 + Low6(s, i + 9))>>
                    \o UnquoteFrom(s, i + 12)
          ELSE <<"U+FFFD">> \o UnquoteFrom(s, i + 3)

unquote(s) == UnquoteFrom(s, 1)

\* str.strip("/")
RECURSIVE LStripSlash(_)
LStripSlash(s) ==
  IF s # <<>> /\ Head(s) = "/" THEN LStripSlash(Tail(s)) ELSE s

RECURSIVE RStripSlash(_)
RStripSlash(s) ==
  IF s # <<>> /\ s[Len(s)] = "/" THEN RStripSlash(SubSeq(s, 1, Len(s) - 1)) ELSE s

StripSlash(s) == RStripSlash(LStripSlash(s))

\* A variant of _normalize_path that strips the separators before it
\* decodes.
normalize_path_strip_first(path, prefix_to_remove) ==
  unquote(StripSlash(RemoveAll(path, prefix_to_remove)))

\* MediaMapper._normalize_path
normalize_path(path, prefix_to_remove) ==
  StripSlash(unquote(RemoveAll(path, prefix_to_remove)))

\* ------------------------------------------------------- configuration

\* The default path prefixes of CleanupConfig and of MediaMapper.__init__.
jellyfin_movie_prefix_default == <<"/","m","e","d","i","a","/","m","o","v","i","e","s","/">>
jellyfin_tv_prefix_default == <<"/","m","e","d","i","a","/","t","v","/">>
radarr_prefix_default == <<"/","m","o","v","i","e","s","/">>
sonarr_prefix_default == <<"/","t","v","/">>

\* ---------------------------------------------------------- variables

VARIABLES
  \* the collaborators (the environment)
  radarr_movies,     \* the movie catalog's GET /movie answer: a list of movies
  sonarr_episodes,   \* the series catalog's GET /episode?seriesId= answers
  jf_movies,         \* the watch-state source's watched movies, once observed
  jf_episodes,       \* the watch-state source's watched episodes, once observed
  now,               \* datetime.now(timezone.utc), in days
  \* MediaMapper
  movies_cache,      \* Optional[Dict[int, dict]]
  series_cache,      \* Optional[Dict[int, dict]]
  episodes_cache,    \* Dict[int, List[dict]]
  tags_cache,        \* Dict[str, Dict[int, str]]
  \* MediaCleanup and main()
  config,            \* Optional[CleanupConfig]
  stats,             \* CleanupStats
  primary_user_id,
  radarr_keep_tag_id,
  sonarr_keep_tag_id,
  pc,                \* where the process is
  todo,              \* the watched items the running phase has still to process
  error,             \* the exception travelling up, if any
  exit_code,         \* Optional[int]: sys.exit's argument
  ops,               \* how many operations a direct user of the Mapper has called
  \* observation
  requests,          \* HTTP requests issued so far, per endpoint
  outcomes,          \* per watched item processed by the run: what became of it
  summaries,         \* the statistics print_summary() has emitted
  last               \* the last operation: its name, arguments, result and requests

\* The Mapper's path prefixes: MediaCleanup.__init__ hands its Mapper the
\* four prefixes of its configuration; a Mapper built by another caller
\* (pc = "mapper") keeps the defaults of MediaMapper.__init__.
BuiltByCleanup == config # None /\ pc # "mapper"
jellyfin_movie_prefix ==
  IF BuiltByCleanup THEN Get(config).jellyfin_movie_prefix ELSE jellyfin_movie_prefix_default
jellyfin_tv_prefix ==
  IF BuiltByCleanup THEN Get(config).jellyfin_tv_prefix ELSE jellyfin_tv_prefix_default
radarr_prefix ==
  IF BuiltByCleanup THEN Get(config).radarr_prefix ELSE radarr_prefix_default
sonarr_prefix ==
  IF BuiltByCleanup THEN Get(config).sonarr_prefix ELSE sonarr_prefix_default

mapper_vars == <<movies_cache, series_cache, episodes_cache, tags_cache>>
env_vars == <<radarr_movies, sonarr_episodes, jf_movies, jf_episodes, now>>
cleanup_vars == <<config, stats, primary_user_id, radarr_keep_tag_id,
                  sonarr_keep_tag_id, pc, todo, error, exit_code, ops>>
obs_vars == <<requests, outcomes, summaries, last>>
vars == <<env_vars, mapper_vars, cleanup_vars, obs_vars>>

\* ------------------------------------------------------- the HTTP layer

Endpoints == {"jf_users", "jf_movies", "jf_episodes",
              "radarr_movie", "radarr_tag", "radarr_delete",
              "sonarr_series", "sonarr_tag", "sonarr_episode",
              "sonarr_delete", "sonarr_bulk"}

\* The endpoints whose call changes the collaborator's data.
MutatingEndpoints == {"radarr_delete", "sonarr_delete", "sonarr_bulk"}

\* One request: the endpoint and its argument (an id, or 0).
Call(ep, arg) == [ep |-> ep, arg |-> arg]

\* What fails at the transport level during one step: an endpoint (for the
\* episode lists, of the series arg), or nothing.
NoDown == Call("none", 0)

\* The state an operation of the Mapper reads and writes: the Mapper's caches,
\* the collaborators' data, and the requests issued (calls: by this operation).
World == [movies_cache |-> movies_cache, series_cache |-> series_cache,
          episodes_cache |-> episodes_cache, tags_cache |-> tags_cache,
          radarr_movies |-> radarr_movies, sonarr_episodes |-> sonarr_episodes,
          requests |-> requests, calls |-> <<>>]

\* requests.get / requests.delete is called: the request is issued.
Issue(w, ep, arg) ==
  [w EXCEPT !.requests[ep] = @ + 1, !.calls = Append(@, Call(ep, arg))]

\* The request raises (a connection error, or raise_for_status()).
Raises(down, ep, arg) ==
  down.ep = ep /\ (ep = "sonarr_episode" => down.arg = arg)

\* What an operation gives back: the world after it, whether it returned
\* (ok) or raised, and the value returned.
Returned(w, ret) == [w |-> w, ok |-> TRUE, ret |-> ret]
Raised(w) == [w |-> w, ok |-> FALSE, ret |-> <<>>]

\* ------------------------------------------------------------- dicts

DictHas(d, k) == \E i \in 1..Len(d) : d[i].k = k
DictGet(d, k) == d[CHOOSE i \in 1..Len(d) : d[i].k = k].v
DictKeys(d) == [i \in 1..Len(d) |-> d[i].k]

\* d[k] = v
DictSet(d, k, v) ==
  IF DictHas(d, k)
  THEN [i \in 1..Len(d) |-> IF d[i].k = k THEN [k |-> k, v |-> v] ELSE d[i]]
  ELSE Append(d, [k |-> k, v |-> v])

\* del d[k]
RECURSIVE DictDel(_, _)
DictDel(d, k) ==
  IF d = <<>> THEN <<>>
  ELSE IF Head(d).k = k THEN Tail(d)
  ELSE <<Head(d)>> \o DictDel(Tail(d), k)

\* {e['id']: e for e in entries}
RECURSIVE DictById(_)
DictById(entries) ==
  IF entries = <<>> THEN <<>>
  ELSE DictSet(DictById(SubSeq(entries, 1, Len(entries) - 1)),
               entries[Len(entries)].id, entries[Len(entries)])

\* A variant of the cache filter that keeps every entry.
WithFile_all(entries) == entries

\* [e for e in entries if e.get('hasFile')]
RECURSIVE WithFile(_)
WithFile(entries) ==
  IF entries = <<>> THEN <<>>
  ELSE (IF Head(entries).hasFile THEN <<Head(entries)>> ELSE <<>>)
       \o WithFile(Tail(entries))

\* ------------------------------------------------- MediaMapper: Radarr

\* A variant of a lookup in which a fetch that raised reads as "no match".
OrRaise_absent(got, found) ==
  IF ~got.ok THEN Returned(got.w, None) ELSE Returned(got.w, found)

\* A lookup that goes on with `found` unless the call before it raised.
OrRaise(got, found) == IF ~got.ok THEN got ELSE Returned(got.w, found)

\* The request of a cached getter: it raises, or its answer fills the cache.
Fetched(down, ep, arg, w1, w2, answer) ==
  IF Raises(down, ep, arg) THEN Raised(w1) ELSE Returned(w2, answer)

\* The cache write of _get_all_radarr_movies:
\* {m['id']: m for m in movies if m.get('hasFile')}
cache_radarr_movies(w1, cache, down) ==
  Fetched(down, "radarr_movie", 0, w1, [w1 EXCEPT !.movies_cache = Some(cache)], cache)

\* A variant of the getter that takes an empty movie cache for one not yet
\* populated (`if not self._movies_cache`).
get_all_radarr_movies_if_empty(w, down) ==
  IF w.movies_cache = None \/ w.movies_cache = Some(<<>>)
  THEN cache_radarr_movies(Issue(w, "radarr_movie", 0),
                           DictById(WithFile(w.radarr_movies)), down)
  ELSE Returned(w, Get(w.movies_cache))

\* MediaMapper._get_all_radarr_movies
get_all_radarr_movies(w, down) ==
  IF w.movies_cache = None
  THEN cache_radarr_movies(Issue(w, "radarr_movie", 0),
                           DictById(WithFile(w.radarr_movies)), down)
  ELSE Returned(w, Get(w.movies_cache))

\* A variant of the loop that compares the normalized paths without regard
\* to letter case.
RECURSIVE FirstMovieByPath_ignoring_case(_, _, _)
FirstMovieByPath_ignoring_case(d, i, jellyfin_norm) ==
  IF i > Len(d) THEN None
  ELSE IF d[i].v.hasFile
          /\ StrLower(normalize_path(d[i].v.path, radarr_prefix)) = StrLower(jellyfin_norm)
       THEN Some(d[i].k)
  ELSE FirstMovieByPath_ignoring_case(d, i + 1, jellyfin_norm)

\* The loop of find_radarr_movie_by_path over dict d, from position i on.
RECURSIVE FirstMovieByPath(_, _, _)
FirstMovieByPath(d, i, jellyfin_norm) ==
  IF i > Len(d) THEN None
  ELSE IF d[i].v.hasFile
          /\ normalize_path(d[i].v.path, radarr_prefix) = jellyfin_norm
       THEN Some(d[i].k)
  ELSE FirstMovieByPath(d, i + 1, jellyfin_norm)

match_movie_by_path(got, jellyfin_norm) ==
  OrRaise(got, FirstMovieByPath(got.ret, 1, jellyfin_norm))

\* MediaMapper.find_radarr_movie_by_path
find_radarr_movie_by_path(w, jellyfin_path, down) ==
  match_movie_by_path(get_all_radarr_movies(w, down),
                      normalize_path(jellyfin_path, jellyfin_movie_prefix))

\* The loop of find_radarr_movie_by_tmdb over dict d, from position i on.
RECURSIVE FirstMovieByTmdb(_, _, _)
FirstMovieByTmdb(d, i, tmdb_id) ==
  IF i > Len(d) THEN None
  ELSE IF StrOfOptInt(d[i].v.tmdbId) = tmdb_id THEN Some(d[i].k)
  ELSE FirstMovieByTmdb(d, i + 1, tmdb_id)

match_movie_by_tmdb(got, tmdb_id) ==
  OrRaise(got, FirstMovieByTmdb(got.ret, 1, tmdb_id))

\* MediaMapper.find_radarr_movie_by_tmdb (tmdb_id is a str)
find_radarr_movie_by_tmdb(w, tmdb_id, down) ==
  match_movie_by_tmdb(get_all_radarr_movies(w, down), tmdb_id)

\* The catalogs' lists of tags, {id, label}: GET /tag of each service.
RadarrTagList == << [id |-> 2, label |-> <<"4","k">>],
                    [id |-> 5, label |-> <<"K","e","e","p">>] >>
SonarrTagList == << [id |-> 0, label |-> <<"k","e","e","p">>] >>

\* {tag['id']: tag['label'] for tag in tags}
RECURSIVE TagDict(_)
TagDict(tags) ==
  IF tags = <<>> THEN <<>>
  ELSE DictSet(TagDict(SubSeq(tags, 1, Len(tags) - 1)),
               tags[Len(tags)].id, tags[Len(tags)].label)

\* The cache write of get_radarr_tags / get_sonarr_tags.
cache_tags(w1, service, ep, tags, down) ==
  Fetched(down, ep, 0, w1, [w1 EXCEPT !.tags_cache = DictSet(@, service, tags)], tags)

\* MediaMapper.get_radarr_tags
get_radarr_tags(w, down) ==
  IF ~DictHas(w.tags_cache, "radarr")
  THEN cache_tags(Issue(w, "radarr_tag", 0), "radarr", "radarr_tag",
                  TagDict(RadarrTagList), down)
  ELSE Returned(w, DictGet(w.tags_cache, "radarr"))

\* The movie catalog after DELETE /movie/{id} answered 200.
RECURSIVE WithoutMovie(_, _)
WithoutMovie(movies, movie_id) ==
  IF movies = <<>> THEN <<>>
  ELSE (IF Head(movies).id = movie_id THEN <<>> ELSE <<Head(movies)>>)
       \o WithoutMovie(Tail(movies), movie_id)

\* The success status of a delete call.
HTTP_OK == 200

\* A variant of the invalidation that drops every entry of the movie cache.
invalidate_movie_all(w2, movie_id) ==
  IF w2.movies_cache # None
  THEN Returned([w2 EXCEPT !.movies_cache = Some(<<>>)], TRUE)
  ELSE Returned(w2, TRUE)

\* A variant of the invalidation that leaves the movie cache as it is.
invalidate_movie_never(w2, movie_id) == Returned(w2, TRUE)

\* delete_radarr_movie on status 200: the cache entry is invalidated.
\* if self._movies_cache and movie_id in self._movies_cache: del ...
invalidate_movie(w2, movie_id) ==
  IF w2.movies_cache # None /\ Get(w2.movies_cache) # <<>>
     /\ DictHas(Get(w2.movies_cache), movie_id)
  THEN Returned([w2 EXCEPT !.movies_cache = Some(DictDel(Get(@), movie_id))], TRUE)
  ELSE Returned(w2, TRUE)

\* A variant of delete_radarr_movie that, on status 200, keeps the deleted
\* movie in the cache.
radarr_deleted_cache_kept(w1, movie_id, status, down) ==
  IF Raises(down, "radarr_delete", movie_id) THEN Raised(w1)
  ELSE IF status = HTTP_OK
  THEN Returned([w1 EXCEPT !.radarr_movies = WithoutMovie(@, movie_id)], TRUE)
  ELSE Returned(w1, FALSE)

\* delete_radarr_movie once the DELETE request is issued.
radarr_deleted(w1, movie_id, status, down) ==
  IF Raises(down, "radarr_delete", movie_id) THEN Raised(w1)
  ELSE IF status = HTTP_OK
  THEN invalidate_movie([w1 EXCEPT !.radarr_movies = WithoutMovie(@, movie_id)], movie_id)
  ELSE Returned(w1, FALSE)

\* A variant of the signatures of the delete operations: dry_run: bool = False
dry_run_default_real == FALSE

\* The default of the dry_run parameter of the three delete operations.
dry_run_default == TRUE

\* A variant of delete_radarr_movie that sends the request in dry-run too.
delete_radarr_movie_always_real(w, movie_id, dry_run, status, down) ==
  radarr_deleted(Issue(w, "radarr_delete", movie_id), movie_id, status, down)

\* MediaMapper.delete_radarr_movie; status is the catalog's answer
delete_radarr_movie(w, movie_id, dry_run, status, down) ==
  IF dry_run THEN Returned(w, TRUE)
  ELSE radarr_deleted(Issue(w, "radarr_delete", movie_id), movie_id, status, down)

\* ------------------------------------------------- MediaMapper: Sonarr

\* The series catalog's list of series: GET /series.
SonarrSeriesList == << [id |-> 1], [id |-> 2] >>

\* The cache write of _get_all_sonarr_series: {s['id']: s for s in series}
cache_sonarr_series(w1, cache, down) ==
  Fetched(down, "sonarr_series", 0, w1, [w1 EXCEPT !.series_cache = Some(cache)], cache)

\* MediaMapper._get_all_sonarr_series
get_all_sonarr_series(w, down) ==
  IF w.series_cache = None
  THEN cache_sonarr_series(Issue(w, "sonarr_series", 0), DictById(SonarrSeriesList), down)
  ELSE Returned(w, Get(w.series_cache))

\* The catalog's answer to GET /episode?seriesId=: a series it does not hold
\* has no episodes.
EpisodesOf(w, series_id) ==
  IF series_id \in DOMAIN w.sonarr_episodes THEN w.sonarr_episodes[series_id]
  ELSE <<>>

\* The cache write of _get_sonarr_episodes:
\* [ep for ep in episodes if ep.get('hasFile')]
cache_sonarr_episodes(w1, series_id, episodes, down) ==
  Fetched(down, "sonarr_episode", series_id, w1,
          [w1 EXCEPT !.episodes_cache = DictSet(@, series_id, episodes)], episodes)

\* A variant of _get_sonarr_episodes that asks the catalog every time.
get_sonarr_episodes_uncached(w, series_id, down) ==
  cache_sonarr_episodes(Issue(w, "sonarr_episode", series_id), series_id,
                        WithFile(EpisodesOf(w, series_id)), down)

\* MediaMapper._get_sonarr_episodes
get_sonarr_episodes(w, series_id, down) ==
  IF ~DictHas(w.episodes_cache, series_id)
  THEN cache_sonarr_episodes(Issue(w, "sonarr_episode", series_id), series_id,
                             WithFile(EpisodesOf(w, series_id)), down)
  ELSE Returned(w, DictGet(w.episodes_cache, series_id))

\* MediaMapper.get_sonarr_tags
get_sonarr_tags(w, down) ==
  IF ~DictHas(w.tags_cache, "sonarr")
  THEN cache_tags(Issue(w, "sonarr_tag", 0), "sonarr", "sonarr_tag",
                  TagDict(SonarrTagList), down)
  ELSE Returned(w, DictGet(w.tags_cache, "sonarr"))

\* The inner loop of find_sonarr_episode_by_path: the episode-file id of the
\* first episode of the list, from position i on, whose path matches.
RECURSIVE FirstEpisodeByPath(_, _, _)
FirstEpisodeByPath(episodes, i, jellyfin_norm) ==
  IF i > Len(episodes) THEN None
  ELSE IF episodes[i].hasFile
          /\ normalize_path(episodes[i].path, sonarr_prefix) = jellyfin_norm
       THEN Some(episodes[i].episodeFileId)
  ELSE FirstEpisodeByPath(episodes, i + 1, jellyfin_norm)

\* The outer loop of find_sonarr_episode_by_path over series_to_search, from
\* position i on: each series' list is fetched when the loop reaches it, and
\* the first match returns.
RECURSIVE SearchSeries(_, _, _, _, _)
RECURSIVE SearchedSeries(_, _, _, _, _, _)
SearchedSeries(got, hit, series_to_search, i, jellyfin_norm, down) ==
  IF ~got.ok THEN got
  ELSE IF hit # None THEN Returned(got.w, hit)
  ELSE SearchSeries(got.w, series_to_search, i + 1, jellyfin_norm, down)

SearchEpisodes(got, series_to_search, i, jellyfin_norm, down) ==
  SearchedSeries(got, FirstEpisodeByPath(got.ret, 1, jellyfin_norm),
                 series_to_search, i, jellyfin_norm, down)

SearchSeries(w, series_to_search, i, jellyfin_norm, down) ==
  IF i > Len(series_to_search) THEN Returned(w, None)
  ELSE SearchEpisodes(get_sonarr_episodes(w, series_to_search[i], down),
                      series_to_search, i, jellyfin_norm, down)

\* find_sonarr_episode_by_path with no series_id: every series is searched.
search_all_series(all, jellyfin_norm, down) ==
  IF ~all.ok THEN all
  ELSE SearchSeries(all.w, DictKeys(all.ret), 1, jellyfin_norm, down)

\* MediaMapper.find_sonarr_episode_by_path; series_id is an Optional[int]
find_sonarr_episode_by_path(w, jellyfin_path, series_id, down) ==
  IF TruthyInt(series_id)
  THEN SearchSeries(w, <<Get(series_id)>>, 1,
                    normalize_path(jellyfin_path, jellyfin_tv_prefix), down)
  ELSE search_all_series(get_all_sonarr_series(w, down),
                         normalize_path(jellyfin_path, jellyfin_tv_prefix), down)

\* One series' episodes after the catalog deleted the files file_ids: the
\* episodes that had one of them have no file any more.
WithoutFiles(episodes, file_ids) ==
  [i \in 1..Len(episodes) |->
     IF episodes[i].hasFile /\ episodes[i].episodeFileId \in file_ids
     THEN [episodes[i] EXCEPT !.hasFile = FALSE, !.episodeFileId = 0]
     ELSE episodes[i]]

\* The series catalog after DELETE /episodefile answered 200.
WithoutEpisodeFiles(all_episodes, file_ids) ==
  [sid \in DOMAIN all_episodes |-> WithoutFiles(all_episodes[sid], file_ids)]

\* A variant of the Sonarr deletes that leaves the episode cache as it is.
sonarr_deleted_cache_kept(w1, ep, arg, file_ids, status, down) ==
  IF Raises(down, ep, arg) THEN Raised(w1)
  ELSE IF status = HTTP_OK
  THEN Returned([w1 EXCEPT !.sonarr_episodes = WithoutEpisodeFiles(@, file_ids)], TRUE)
  ELSE Returned(w1, FALSE)

\* A Sonarr delete once the DELETE request is issued: on status 200 the whole
\* episode cache is cleared.
sonarr_deleted(w1, ep, arg, file_ids, status, down) ==
  IF Raises(down, ep, arg) THEN Raised(w1)
  ELSE IF status = HTTP_OK
  THEN Returned([w1 EXCEPT !.sonarr_episodes = WithoutEpisodeFiles(@, file_ids),
                           !.episodes_cache = <<>>], TRUE)
  ELSE Returned(w1, FALSE)

\* A variant of delete_sonarr_episode_file that sends the request in
\* dry-run too.
delete_sonarr_episode_file_always_real(w, episode_file_id, dry_run, status, down) ==
  sonarr_deleted(Issue(w, "sonarr_delete", episode_file_id), "sonarr_delete",
                 episode_file_id, {episode_file_id}, status, down)

\* MediaMapper.delete_sonarr_episode_file
delete_sonarr_episode_file(w, episode_file_id, dry_run, status, down) ==
  IF dry_run THEN Returned(w, TRUE)
  ELSE sonarr_deleted(Issue(w, "sonarr_delete", episode_file_id), "sonarr_delete",
                      episode_file_id, {episode_file_id}, status, down)

\* A variant of the bulk delete that has nothing to do for an empty list.
bulk_delete_nothing_for_none(w, episode_file_ids, dry_run, status, down) ==
  IF dry_run \/ episode_file_ids = <<>> THEN Returned(w, TRUE)
  ELSE sonarr_deleted(Issue(w, "sonarr_bulk", Len(episode_file_ids)), "sonarr_bulk",
                      Len(episode_file_ids), Range(episode_file_ids), status, down)

\* MediaMapper.bulk_delete_sonarr_episode_files; episode_file_ids is a list
bulk_delete_sonarr_episode_files(w, episode_file_ids, dry_run, status, down) ==
  IF dry_run THEN Returned(w, TRUE)
  ELSE sonarr_deleted(Issue(w, "sonarr_bulk", Len(episode_file_ids)), "sonarr_bulk",
                      Len(episode_file_ids), Range(episode_file_ids), status, down)

\* --------------------------------------------------- CleanupConfig

\* The white space int() skips around an ASCII string (Py_ISSPACE).
IsSpace(c) == c \in {" ", "U+0009", "U+000A", "U+000B", "U+000C", "U+000D"}

\* s with the white space at both ends dropped.
RECURSIVE StripSpace(_)
StripSpace(s) ==
  IF s = <<>> THEN s
  ELSE IF IsSpace(s[1]) THEN StripSpace(Tail(s))
  ELSE IF IsSpace(s[Len(s)]) THEN StripSpace(SubSeq(s, 1, Len(s) - 1))
  ELSE s

IsDigit(c) == \E d \in 0..9 : Digits[d + 1] = c

\* The value of a run of decimal digits, the underscores between them skipped.
RECURSIVE DigitsValue(_)
DigitsValue(s) ==
  IF s = <<>> THEN 0
  ELSE IF s[Len(s)] = "_" THEN DigitsValue(SubSeq(s, 1, Len(s) - 1))
  ELSE 10 * DigitsValue(SubSeq(s, 1, Len(s) - 1))
       + (CHOOSE d \in 0..9 : Digits[d + 1] = s[Len(s)])

\* What int() makes of one character before it parses: a character below
\* U+007F is kept, white space beyond it becomes a space, a decimal digit
\* of any script its ASCII digit, and anything else a "?".
ToAsciiDecimal(c) ==
  LET n == Ord(c)
  IN IF n < 127 THEN c
     ELSE IF n \in UnicodeSpaces THEN " "
     ELSE IF \E z \in DecimalZeros : z <= n /\ n <= z + 9
     THEN Digits[n - (CHOOSE z \in DecimalZeros : z <= n /\ n <= z + 9) + 1]
     ELSE "?"

\* int(s) for a str: each character is taken to ASCII, surrounding white
\* space is dropped, then an optional sign and decimal digits, single
\* underscores allowed between digits. None stands for the ValueError
\* int() raises on anything else.
IntOfStr(s) ==
  LET t == StripSpace([i \in 1..Len(s) |-> ToAsciiDecimal(s[i])])
      signed == t # <<>> /\ t[1] \in {"+", "-"}
      body == IF signed THEN Tail(t) ELSE t
      wellformed ==
        /\ body # <<>>
        /\ \A i \in 1..Len(body) : IsDigit(body[i]) \/ body[i] = "_"
        /\ body[1] # "_" /\ body[Len(body)] # "_"
        /\ \A i \in 1..(Len(body) - 1) : ~(body[i] = "_" /\ body[i + 1] = "_")
  IN IF ~wellformed THEN None
     ELSE IF t[1] = "-" THEN Some(0 - DigitsValue(body))
     ELSE Some(DigitsValue(body))

\* os.getenv(name, default): env is the process environment, a record of
\* Optional[str]
getenv(value, default) == IF value = None THEN default ELSE Get(value)

\* The default service URLs of from_env.
jellyfin_url_default ==
  <<"h","t","t","p",":","/","/","j","e","l","l","y","f","i","n",".","m","e","d","i","a",".","s","v","c",".","c","l","u","s","t","e","r",".","l","o","c","a","l",":","8","0","9","6">>
radarr_url_default ==
  <<"h","t","t","p",":","/","/","r","a","d","a","r","r",".","m","e","d","i","a",".","s","v","c",".","c","l","u","s","t","e","r",".","l","o","c","a","l",":","7","8","7","8">>
sonarr_url_default ==
  <<"h","t","t","p",":","/","/","s","o","n","a","r","r",".","m","e","d","i","a",".","s","v","c",".","c","l","u","s","t","e","r",".","l","o","c","a","l",":","8","9","8","9">>

\* The configuration from_env builds once GRACE_PERIOD_DAYS has been read.
config_from(env, grace_period_days) ==
  [grace_period_days |-> grace_period_days,
   dry_run |-> StrLower(getenv(env.DRY_RUN, <<"t","r","u","e">>)) = <<"t","r","u","e">>,
   keep_tag_label |-> getenv(env.KEEP_TAG_LABEL, <<"k","e","e","p">>),
   primary_user_name |-> getenv(env.PRIMARY_USER_NAME, <<"a","d","m","i","n">>),
   jellyfin_url |-> getenv(env.JELLYFIN_URL, jellyfin_url_default),
   jellyfin_api_key |-> getenv(env.JELLYFIN_API_KEY, <<>>),
   radarr_url |-> getenv(env.RADARR_URL, radarr_url_default),
   radarr_api_key |-> getenv(env.RADARR_API_KEY, <<>>),
   sonarr_url |-> getenv(env.SONARR_URL, sonarr_url_default),
   sonarr_api_key |-> getenv(env.SONARR_API_KEY, <<>>),
   jellyfin_movie_prefix |-> getenv(env.JELLYFIN_MOVIE_PREFIX, jellyfin_movie_prefix_default),
   jellyfin_tv_prefix |-> getenv(env.JELLYFIN_TV_PREFIX, jellyfin_tv_prefix_default),
   radarr_prefix |-> getenv(env.RADARR_PREFIX, radarr_prefix_default),
   sonarr_prefix |-> getenv(env.SONARR_PREFIX, sonarr_prefix_default)]

\* CleanupConfig.from_env: Some(the configuration), or None when int()
\* raises ValueError on GRACE_PERIOD_DAYS and no configuration is built.
from_env(env) ==
  LET grace_period_days == IntOfStr(getenv(env.GRACE_PERIOD_DAYS, <<"5">>))
  IN IF grace_period_days = None THEN None
     ELSE Some(config_from(env, Get(grace_period_days)))

\* CleanupStats()
CleanupStats ==
  [movies_watched |-> 0, movies_eligible |-> 0, movies_skipped_tag |-> 0,
   movies_skipped_not_found |-> 0, movies_deleted |-> 0, movies_failed |-> 0,
   episodes_watched |-> 0, episodes_eligible |-> 0, episodes_skipped_tag |-> 0,
   episodes_skipped_not_found |-> 0, episodes_deleted |-> 0, episodes_failed |-> 0]

\* --------------------------------------------------- MediaCleanup

\* The watch-state source's users: GET /Users.
JellyfinUsers == << [Name |-> <<"g","u","e","s","t">>, Id |-> "user-guest"],
                    [Name |-> <<"A","d","m","i","n">>, Id |-> "user-admin"] >>

\* next((u for u in users if u['Name'].lower() == name.lower()), None)
RECURSIVE FirstUser(_, _, _)
FirstUser(users, i, name) ==
  IF i > Len(users) THEN None
  ELSE IF StrLower(users[i].Name) = StrLower(name) THEN Some(users[i])
  ELSE FirstUser(users, i + 1, name)

\* _get_primary_user_id once GET /Users is issued: ret is the user's Id, or
\* None when no user has the name (the method raises ValueError).
primary_user_found(w1, primary_user, down) ==
  IF Raises(down, "jf_users", 0) THEN Raised(w1)
  ELSE IF primary_user = None THEN Returned(w1, None)
  ELSE Returned(w1, Some(Get(primary_user).Id))

\* MediaCleanup._get_primary_user_id
get_primary_user_id(w, cfg, down) ==
  primary_user_found(Issue(w, "jf_users", 0),
                     FirstUser(JellyfinUsers, 1, cfg.primary_user_name), down)

\* next((tag_id for tag_id, label in tags.items()
\*       if label.lower() == keep_tag_label.lower()), None)
RECURSIVE FirstTag(_, _, _)
FirstTag(tags, i, keep_tag_label) ==
  IF i > Len(tags) THEN None
  ELSE IF StrLower(tags[i].v) = StrLower(keep_tag_label) THEN Some(tags[i].k)
  ELSE FirstTag(tags, i + 1, keep_tag_label)

\* A variant of the resolution that gives None for a tag id Python reads
\* as false.
keep_tag_found_truthy(got, keep_tag_label) ==
  OrRaise(got, IF TruthyInt(FirstTag(got.ret, 1, keep_tag_label))
               THEN FirstTag(got.ret, 1, keep_tag_label) ELSE None)

keep_tag_found(got, keep_tag_label) ==
  OrRaise(got, FirstTag(got.ret, 1, keep_tag_label))

\* MediaCleanup._get_keep_tag_id
get_keep_tag_id(w, service, cfg, down) ==
  IF service = "radarr"
  THEN keep_tag_found(get_radarr_tags(w, down), cfg.keep_tag_label)
  ELSE keep_tag_found(get_sonarr_tags(w, down), cfg.keep_tag_label)

\* datetime.fromisoformat(s.replace('Z', '+00:00')): the instant, in hours, of
\* an ISO timestamp given as its local time t and its UTC offset
fromisoformat(s) == s.t - s.utcoffset

\* The calendar of datetime, in hours of the model's clock, whose hour 0 is
\* 2026-01-01T00:00 UTC: datetime.min, 0001-01-01T00:00, lies 739616 days
\* before it and the calendar ends with the year 9999, 2912443 days after it.
datetime_min == -(24 * 739616)
datetime_end == 24 * 2912443

\* An instant that a datetime can hold.
InCalendar(t) == datetime_min <= t /\ t < datetime_end

\* A variant of the grace check that also passes a timestamp at the cutoff.
is_past_grace_period_inclusive(last_played_date, now_utc, grace_period_days) ==
  LET last_played == fromisoformat(last_played_date)
      cutoff_date == now_utc - 24 * grace_period_days
  IN IF ~InCalendar(cutoff_date) THEN None ELSE Some(last_played <= cutoff_date)

\* MediaCleanup._is_past_grace_period, with now_utc for datetime.now(utc):
\* Some(verdict), or None when the subtraction of the grace period leaves the
\* calendar and raises OverflowError.
is_past_grace_period(last_played_date, now_utc, grace_period_days) ==
  LET last_played == fromisoformat(last_played_date)
      cutoff_date == now_utc - 24 * grace_period_days
  IN IF ~InCalendar(cutoff_date) THEN None ELSE Some(last_played < cutoff_date)

\* Variants of _has_keep_tag that the tag properties must tell from it: one
\* that finds no item tagged, one that takes an unresolved keep tag for a
\* tag every item carries.
has_keep_tag_never(item_tags, keep_tag_id) == FALSE

has_keep_tag_fail_closed(item_tags, keep_tag_id) ==
  IF keep_tag_id = None THEN TRUE
  ELSE \E i \in 1..Len(item_tags) : item_tags[i] = Get(keep_tag_id)

\* MediaCleanup._has_keep_tag; keep_tag_id is an Optional[int]
has_keep_tag(item_tags, keep_tag_id) ==
  IF keep_tag_id = None THEN FALSE
  ELSE \E i \in 1..Len(item_tags) : item_tags[i] = Get(keep_tag_id)

\* What became of one watched item: the item, its terminal class ("Aborted"
\* when an exception ended the step), whether it was counted eligible, the
\* catalog id it resolved to and the requests made for it.
Outcome(kind, item, class, eligible, id, w) ==
  [kind |-> kind, item |-> item, class |-> class, eligible |-> eligible,
   id |-> id, calls |-> w.calls]

\* The result of one iteration of a phase's loop; when it raised, exc is
\* the exception.
Step(w, ok, kind, item, class, eligible, id, t) ==
  [w |-> w, ok |-> ok, out |-> Outcome(kind, item, class, eligible, id, w),
   exc |-> IF class \in {"KeyError", "OverflowError"} THEN class ELSE "TransportError"]

\* movie.get('Path', 'unknown')
PathOf(item) ==
  IF item.Path = None THEN <<"u","n","k","n","o","w","n">> ELSE Get(item.Path)

\* cleanup_movies after the path match: the TMDb fallback, when the path gave
\* nothing and the item carries a TMDb id.
resolve_movie_fallback(by_path, movie, down) ==
  IF ~by_path.ok THEN by_path
  ELSE IF ~TruthyInt(by_path.ret) /\ TruthyStr(movie.Tmdb)
  THEN find_radarr_movie_by_tmdb(by_path.w, Get(movie.Tmdb), down)
  ELSE by_path

\* The movie resolution of cleanup_movies.
resolve_movie(w, movie, down) ==
  resolve_movie_fallback(find_radarr_movie_by_path(w, PathOf(movie), down), movie, down)

\* A variant of cleanup_movies in which a refused delete ends the phase.
movie_deleted_or_aborted(deleted, movie, radarr_movie_id, t) ==
  IF ~deleted.ok
  THEN Step(deleted.w, FALSE, "movie", movie, "Aborted", TRUE, radarr_movie_id, t)
  ELSE Step(deleted.w, deleted.ret, "movie", movie,
            IF deleted.ret THEN "Deleted" ELSE "Failed", TRUE, radarr_movie_id, t)

\* cleanup_movies after the delete call: success or failure is counted.
movie_deleted(deleted, movie, radarr_movie_id, t) ==
  IF ~deleted.ok
  THEN Step(deleted.w, FALSE, "movie", movie, "Aborted", TRUE, radarr_movie_id, t)
  ELSE Step(deleted.w, TRUE, "movie", movie,
            IF deleted.ret THEN "Deleted" ELSE "Failed", TRUE, radarr_movie_id, t)

\* A variant of cleanup_movies that deletes the movie before it reads its
\* catalog entry for the keep-tag check.
movie_tag_checked_late(all, movie, radarr_movie_id, cfg, keep_tag_id, t, status, down) ==
  LET deleted == delete_radarr_movie(all.w, Get(radarr_movie_id), cfg.dry_run,
                                     status, down)
  IN IF ~all.ok
     THEN Step(all.w, FALSE, "movie", movie, "Aborted", TRUE, radarr_movie_id, t)
     ELSE IF ~deleted.ok
     THEN Step(deleted.w, FALSE, "movie", movie, "Aborted", TRUE, radarr_movie_id, t)
     ELSE IF ~DictHas(Get(deleted.w.movies_cache), Get(radarr_movie_id))
     THEN Step(deleted.w, FALSE, "movie", movie, "KeyError", TRUE, radarr_movie_id, t)
     ELSE IF has_keep_tag(DictGet(all.ret, Get(radarr_movie_id)).tags, keep_tag_id)
     THEN Step(deleted.w, TRUE, "movie", movie, "TagSkip", TRUE, radarr_movie_id, t)
     ELSE movie_deleted(deleted, movie, radarr_movie_id, t)

\* cleanup_movies at the keep-tag check, with the catalog entry read from
\* _get_all_radarr_movies()[radarr_movie_id]: an id that is not a key of the
\* cache raises KeyError, which ends the run as every exception does.
movie_tag_checked(all, movie, radarr_movie_id, cfg, keep_tag_id, t, status, down) ==
  IF ~all.ok
  THEN Step(all.w, FALSE, "movie", movie, "Aborted", TRUE, radarr_movie_id, t)
  ELSE IF ~DictHas(all.ret, Get(radarr_movie_id))
  THEN Step(all.w, FALSE, "movie", movie, "KeyError", TRUE, radarr_movie_id, t)
  ELSE IF has_keep_tag(DictGet(all.ret, Get(radarr_movie_id)).tags, keep_tag_id)
  THEN Step(all.w, TRUE, "movie", movie, "TagSkip", TRUE, radarr_movie_id, t)
  ELSE movie_deleted(delete_radarr_movie(all.w, Get(radarr_movie_id), cfg.dry_run,
                                         status, down),
                     movie, radarr_movie_id, t)

\* cleanup_movies after the resolution: not found, or on to the tag check.
movie_resolved(found, movie, cfg, keep_tag_id, t, status, down) ==
  IF ~found.ok
  THEN Step(found.w, FALSE, "movie", movie, "Aborted", TRUE, None, t)
  ELSE IF ~TruthyInt(found.ret)
  THEN Step(found.w, TRUE, "movie", movie, "NotFoundSkip", TRUE, found.ret, t)
  ELSE movie_tag_checked(get_all_radarr_movies(found.w, down), movie, found.ret,
                         cfg, keep_tag_id, t, status, down)

\* A variant of the loop body without the last-played check: a movie that
\* was never played goes on to the match.
cleanup_movie_unknown_eligible(w, movie, cfg, keep_tag_id, t, status, down) ==
  IF movie.LastPlayedDate # None
     /\ is_past_grace_period(Get(movie.LastPlayedDate), t, cfg.grace_period_days) = None
  THEN Step(w, FALSE, "movie", movie, "OverflowError", FALSE, None, t)
  ELSE IF movie.LastPlayedDate # None
     /\ ~Get(is_past_grace_period(Get(movie.LastPlayedDate), t, cfg.grace_period_days))
  THEN Step(w, TRUE, "movie", movie, "GraceSkip", FALSE, None, t)
  ELSE movie_resolved(resolve_movie(w, movie, down), movie, cfg, keep_tag_id,
                      t, status, down)

\* The body of the loop of MediaCleanup.cleanup_movies for one watched movie.
\* An OverflowError of the grace check ends the run as every exception
\* does, before the movie is counted eligible.
cleanup_movie(w, movie, cfg, keep_tag_id, t, status, down) ==
  IF movie.LastPlayedDate = None
  THEN Step(w, TRUE, "movie", movie, "UnknownSkip", FALSE, None, t)
  ELSE IF is_past_grace_period(Get(movie.LastPlayedDate), t, cfg.grace_period_days) = None
  THEN Step(w, FALSE, "movie", movie, "OverflowError", FALSE, None, t)
  ELSE IF ~Get(is_past_grace_period(Get(movie.LastPlayedDate), t, cfg.grace_period_days))
  THEN Step(w, TRUE, "movie", movie, "GraceSkip", FALSE, None, t)
  ELSE movie_resolved(resolve_movie(w, movie, down), movie, cfg, keep_tag_id,
                      t, status, down)

\* cleanup_episodes after the delete call.
episode_deleted(deleted, episode, episode_file_id, t) ==
  IF ~deleted.ok
  THEN Step(deleted.w, FALSE, "episode", episode, "Aborted", TRUE, episode_file_id, t)
  ELSE Step(deleted.w, TRUE, "episode", episode,
            IF deleted.ret THEN "Deleted" ELSE "Failed", TRUE, episode_file_id, t)

\* A variant of cleanup_episodes with a tag check: a matched episode is
\* skipped instead of deleted.
episode_resolved_tag_checked(found, episode, cfg, t, status, down) ==
  IF ~found.ok
  THEN Step(found.w, FALSE, "episode", episode, "Aborted", TRUE, None, t)
  ELSE IF ~TruthyInt(found.ret)
  THEN Step(found.w, TRUE, "episode", episode, "NotFoundSkip", TRUE, found.ret, t)
  ELSE Step(found.w, TRUE, "episode", episode, "TagSkip", TRUE, found.ret, t)

\* cleanup_episodes after the path match: not found, or the delete call (no
\* tag is looked at).
episode_resolved(found, episode, cfg, t, status, down) ==
  IF ~found.ok
  THEN Step(found.w, FALSE, "episode", episode, "Aborted", TRUE, None, t)
  ELSE IF ~TruthyInt(found.ret)
  THEN Step(found.w, TRUE, "episode", episode, "NotFoundSkip", TRUE, found.ret, t)
  ELSE episode_deleted(delete_sonarr_episode_file(found.w, Get(found.ret), cfg.dry_run,
                                                  status, down),
                       episode, found.ret, t)

\* The body of the inner loop of MediaCleanup.cleanup_episodes for one
\* watched episode. An OverflowError of the grace check ends the run before
\* the episode is counted eligible.
cleanup_episode(w, episode, cfg, t, status, down) ==
  IF episode.LastPlayedDate = None
  THEN Step(w, TRUE, "episode", episode, "UnknownSkip", FALSE, None, t)
  ELSE IF is_past_grace_period(Get(episode.LastPlayedDate), t, cfg.grace_period_days) = None
  THEN Step(w, FALSE, "episode", episode, "OverflowError", FALSE, None, t)
  ELSE IF ~Get(is_past_grace_period(Get(episode.LastPlayedDate), t, cfg.grace_period_days))
  THEN Step(w, TRUE, "episode", episode, "GraceSkip", FALSE, None, t)
  ELSE episode_resolved(find_sonarr_episode_by_path(w, PathOf(episode), None, down),
                        episode, cfg, t, status, down)

\* A variant of the counting in which an item is counted eligible only once
\* it is matched.
Counted_after_match(st, phase, out) ==
  LET eligible == IF phase = "movies" THEN "movies_eligible" ELSE "episodes_eligible"
      counter ==
        IF phase = "movies"
        THEN CASE out.class = "NotFoundSkip" -> "movies_skipped_not_found"
               [] out.class = "TagSkip" -> "movies_skipped_tag"
               [] out.class = "Deleted" -> "movies_deleted"
               [] out.class = "Failed" -> "movies_failed"
               [] OTHER -> "none"
        ELSE CASE out.class = "NotFoundSkip" -> "episodes_skipped_not_found"
               [] out.class = "Deleted" -> "episodes_deleted"
               [] out.class = "Failed" -> "episodes_failed"
               [] OTHER -> "none"
      st1 == IF out.eligible /\ out.class # "NotFoundSkip"
             THEN [st EXCEPT ![eligible] = @ + 1] ELSE st
  IN IF counter = "none" THEN st1 ELSE [st1 EXCEPT ![counter] = @ + 1]

\* A variant of the loops in which a refused delete is left out of the
\* failed counter.
Counted_failed_unrecorded(st, phase, out) ==
  LET eligible == IF phase = "movies" THEN "movies_eligible" ELSE "episodes_eligible"
      counter ==
        IF phase = "movies"
        THEN CASE out.class = "NotFoundSkip" -> "movies_skipped_not_found"
               [] out.class = "TagSkip" -> "movies_skipped_tag"
               [] out.class = "Deleted" -> "movies_deleted"
               [] OTHER -> "none"
        ELSE CASE out.class = "NotFoundSkip" -> "episodes_skipped_not_found"
               [] out.class = "Deleted" -> "episodes_deleted"
               [] OTHER -> "none"
      st1 == IF out.eligible THEN [st EXCEPT ![eligible] = @ + 1] ELSE st
  IN IF counter = "none" THEN st1 ELSE [st1 EXCEPT ![counter] = @ + 1]

\* The counters of a phase ("movies" or "episodes") after one item.
Counted(st, phase, out) ==
  LET eligible == IF phase = "movies" THEN "movies_eligible" ELSE "episodes_eligible"
      counter ==
        IF phase = "movies"
        THEN CASE out.class = "NotFoundSkip" -> "movies_skipped_not_found"
               [] out.class = "TagSkip" -> "movies_skipped_tag"
               [] out.class = "Deleted" -> "movies_deleted"
               [] out.class = "Failed" -> "movies_failed"
               [] OTHER -> "none"
        ELSE CASE out.class = "NotFoundSkip" -> "episodes_skipped_not_found"
               [] out.class = "Deleted" -> "episodes_deleted"
               [] out.class = "Failed" -> "episodes_failed"
               [] OTHER -> "none"
      st1 == IF out.eligible THEN [st EXCEPT ![eligible] = @ + 1] ELSE st
  IN IF counter = "none" THEN st1 ELSE [st1 EXCEPT ![counter] = @ + 1]

\* The grouping of cleanup_episodes: the episodes in the order of
\* episodes_by_series, a dict keyed by series name in first-appearance order.
SeriesNameOf(episode) ==
  IF episode.SeriesName = None THEN <<"U","n","k","n","o","w","n">>
  ELSE Get(episode.SeriesName)

\* A variant of the grouping that keeps, of each series, the episode seen
\* last.
RECURSIVE GroupBySeries_last_kept(_)
GroupBySeries_last_kept(episodes) ==
  IF episodes = <<>> THEN <<>>
  ELSE LET prev == GroupBySeries_last_kept(SubSeq(episodes, 1, Len(episodes) - 1))
           e == episodes[Len(episodes)]
           name == SeriesNameOf(e)
       IN IF DictHas(prev, name)
          THEN DictSet(prev, name, <<e>>)
          ELSE Append(prev, [k |-> name, v |-> <<e>>])

RECURSIVE GroupBySeries(_)
GroupBySeries(episodes) ==
  IF episodes = <<>> THEN <<>>
  ELSE LET prev == GroupBySeries(SubSeq(episodes, 1, Len(episodes) - 1))
           e == episodes[Len(episodes)]
           name == SeriesNameOf(e)
       IN IF DictHas(prev, name)
          THEN DictSet(prev, name, Append(DictGet(prev, name), e))
          ELSE Append(prev, [k |-> name, v |-> <<e>>])

\* The episodes of episodes_by_series in the order the nested loops reach them.
RECURSIVE Flatten(_)
Flatten(groups) ==
  IF groups = <<>> THEN <<>> ELSE Head(groups).v \o Flatten(Tail(groups))

\* ------------------------------------------------------------ the data

Str1(c) == <<c>>

\* The first reading of the clock, in hours.
StartNow == 24 * 30

Iso(t, utcoffset) == [t |-> t, utcoffset |-> utcoffset]

\* The movie catalog as the run finds it: a movie with a file, one carrying
\* tag 5, one without a file, and one whose id is 0.
\* A file in a folder named after its movie: The Matrix (1999)/m
TheMatrix == <<"T","h","e"," ","M","a","t","r","i","x"," ","(","1","9","9","9",")","/","m">>

RadarrMovies0 ==
  << [id |-> 1, hasFile |-> TRUE, path |-> radarr_prefix_default \o Str1("A"),
      tmdbId |-> Some(11), tags |-> <<>>],
     [id |-> 2, hasFile |-> TRUE, path |-> radarr_prefix_default \o Str1("B"),
      tmdbId |-> Some(12), tags |-> <<2, 5>>],
     [id |-> 3, hasFile |-> FALSE, path |-> <<>>,
      tmdbId |-> Some(13), tags |-> <<>>],
     [id |-> 0, hasFile |-> TRUE, path |-> radarr_prefix_default \o Str1("Z"),
      tmdbId |-> None, tags |-> <<>>],
     [id |-> 4, hasFile |-> TRUE, path |-> radarr_prefix_default \o TheMatrix,
      tmdbId |-> Some(14), tags |-> <<>>] >>

\* The series catalog's episodes, per series id.
SonarrEpisodes0 ==
  [sid \in {1, 2} |->
     IF sid = 1
     THEN << [id |-> 101, hasFile |-> TRUE, path |-> sonarr_prefix_default \o Str1("E"),
              episodeFileId |-> 7],
             [id |-> 102, hasFile |-> FALSE, path |-> <<>>, episodeFileId |-> 0] >>
     ELSE << [id |-> 201, hasFile |-> TRUE, path |-> sonarr_prefix_default \o Str1("F"),
              episodeFileId |-> 8] >>]

WatchedMovie(name, tmdb, last_played) ==
  [Path |-> Some(jellyfin_movie_prefix_default \o Str1(name)), Tmdb |-> tmdb,
   LastPlayedDate |-> last_played]

WatchedEpisode(name, series, last_played) ==
  [Path |-> Some(jellyfin_tv_prefix_default \o Str1(name)), SeriesName |-> Some(Str1(series)),
   LastPlayedDate |-> last_played]

\* Played ten days, exactly five days, and two days before the first reading
\* of the clock.
PlayedLongAgo == Some(Iso(StartNow - 240, 0))
PlayedAtCutoff == Some(Iso(StartNow - 120, 0))
PlayedRecently == Some(Iso(StartNow - 48, 0))

\* The watched movies the watch-state source may report.
WatchedMovieItems ==
  { WatchedMovie("A", Some(<<"1","1">>), PlayedLongAgo),
    WatchedMovie("B", Some(<<"1","2">>), PlayedLongAgo),
    WatchedMovie("a", Some(<<"1","1">>), PlayedLongAgo),
    WatchedMovie("C", None, PlayedLongAgo),
    WatchedMovie("Z", None, PlayedLongAgo),
    WatchedMovie("Z", Some(<<"1","2">>), PlayedLongAgo),
    WatchedMovie("A", Some(<<"1","2">>), PlayedLongAgo),
    WatchedMovie("A", None, None),
    WatchedMovie("A", None, PlayedAtCutoff) }

\* The watched episodes the watch-state source may report.
WatchedEpisodeItems ==
  { WatchedEpisode("E", "S", PlayedLongAgo),
    WatchedEpisode("F", "T", PlayedLongAgo),
    WatchedEpisode("G", "S", PlayedLongAgo),
    WatchedEpisode("E", "S", None),
    WatchedEpisode("F", "T", PlayedAtCutoff),
    WatchedEpisode("F", "T", PlayedRecently) }

\* The most watched items (movies and episodes together) the watch-state
\* source reports.
MaxWatched == 2

\* The lists of at most n elements of S.
RECURSIVE ListsUpTo(_, _)
ListsUpTo(S, n) ==
  IF n = 0 THEN {<<>>}
  ELSE LET shorter == ListsUpTo(S, n - 1)
       IN shorter \cup {Append(l, e) : l \in shorter, e \in S}

\* The process environments main() may start in.
Unset == None

\* The service URLs and the path prefixes left to their defaults.
LocationsUnset ==
  [JELLYFIN_URL |-> Unset, RADARR_URL |-> Unset, SONARR_URL |-> Unset,
   JELLYFIN_MOVIE_PREFIX |-> Unset, JELLYFIN_TV_PREFIX |-> Unset,
   RADARR_PREFIX |-> Unset, SONARR_PREFIX |-> Unset]

\* An environment with the three credentials and nothing else.
CredentialsOnly ==
  [GRACE_PERIOD_DAYS |-> Unset, DRY_RUN |-> Unset, KEEP_TAG_LABEL |-> Unset,
   PRIMARY_USER_NAME |-> Unset, JELLYFIN_API_KEY |-> Some(<<"j">>),
   RADARR_API_KEY |-> Some(<<"r">>), SONARR_API_KEY |-> Some(<<"s">>)]

\* The libraries mounted elsewhere: a real run with two prefixes set.
RelocatedEnv ==
  [CredentialsOnly EXCEPT !.DRY_RUN = Some(<<"f","a","l","s","e">>)]
  @@ [LocationsUnset EXCEPT !.JELLYFIN_MOVIE_PREFIX = Some(<<"/","m","n","t","/">>),
                            !.RADARR_PREFIX = Some(<<"/","d","a","t","a","/">>)]

\* GRACE_PERIOD_DAYS set to the empty string.
EmptyGraceEnv == [CredentialsOnly EXCEPT !.GRACE_PERIOD_DAYS = Some(<<>>)] @@ LocationsUnset

\* Values beyond ASCII: the grace period as the Arabic-Indic digit five and
\* the keep label spelled with the Kelvin sign.
UnicodeEnv ==
  [CredentialsOnly EXCEPT !.GRACE_PERIOD_DAYS = Some(<<"U+0665">>),
                          !.KEEP_TAG_LABEL = Some(<<"U+212A","E","E","P">>)]
  @@ LocationsUnset

\* Grace periods whose cutoff lies before the calendar, and after it.
OutOfCalendarEnvs ==
  {[CredentialsOnly EXCEPT !.GRACE_PERIOD_DAYS = Some(StrOfInt(days))] @@ LocationsUnset :
     days \in {800000, -4000000}}

Envs ==
  {env @@ LocationsUnset : env \in
     [GRACE_PERIOD_DAYS : {Unset},
      DRY_RUN : {Unset, Some(<<"F","a","l","s","e">>)},
      KEEP_TAG_LABEL : {Unset, Some(<<"h","o","l","d">>)},
      PRIMARY_USER_NAME : {Unset, Some(<<"b","o","b">>)},
      JELLYFIN_API_KEY : {Some(<<"j">>)},
      RADARR_API_KEY : {Some(<<"r">>)},
      SONARR_API_KEY : {Some(<<"s">>)}]
     \cup
     [GRACE_PERIOD_DAYS : {Some(<<"5">>)}, DRY_RUN : {Unset}, KEEP_TAG_LABEL : {Unset},
      PRIMARY_USER_NAME : {Unset},
      JELLYFIN_API_KEY : {Unset, Some(<<"j">>)},
      RADARR_API_KEY : {Some(<<>>), Some(<<"r">>)},
      SONARR_API_KEY : {Unset, Some(<<"s">>)}]}
  \cup {RelocatedEnv, EmptyGraceEnv, UnicodeEnv} \cup OutOfCalendarEnvs

\* The answers of a catalog to a delete call.
Statuses == {HTTP_OK, 500}

\* The transport failures a step that calls the endpoints eps may meet.
Downs(eps) ==
  {NoDown} \cup {Call(ep, 0) : ep \in eps \ {"sonarr_episode"}}
  \cup {Call("sonarr_episode", sid) : sid \in IF "sonarr_episode" \in eps THEN {1, 2} ELSE {}}

\* ------------------------------------------------------------ the run

\* What `last` records of an operation: its name, whether it returned, the
\* value it returned and the requests it made.
Op(name, res) == [op |-> name, ok |-> res.ok, ret |-> res.ret, calls |-> res.w.calls]

NoOp == [op |-> "none", ok |-> TRUE, ret |-> None, calls |-> <<>>]

\* The world after an operation becomes the state.
Becomes(w) ==
  /\ movies_cache' = w.movies_cache
  /\ series_cache' = w.series_cache
  /\ episodes_cache' = w.episodes_cache
  /\ tags_cache' = w.tags_cache
  /\ radarr_movies' = w.radarr_movies
  /\ sonarr_episodes' = w.sonarr_episodes
  /\ requests' = w.requests

\* The world before any request: the catalogs as they stand, a Mapper with
\* empty caches.
World0 ==
  [movies_cache |-> None, series_cache |-> None, episodes_cache |-> <<>>,
   tags_cache |-> <<>>, radarr_movies |-> RadarrMovies0,
   sonarr_episodes |-> SonarrEpisodes0, requests |-> [ep \in Endpoints |-> 0],
   calls |-> <<>>]

\* No keep tag or user resolved yet.
NoIds == [user |-> None, radarr |-> None, sonarr |-> None]

\* The process is at `start` in the world w, with the ids resolved so far,
\* the watched movies fetched so far and `op` its last operation; nothing is
\* counted or logged yet.
StartsIn(start, cfg, w, ids, watched_movies, op) ==
  /\ pc = start
  /\ radarr_movies = w.radarr_movies
  /\ sonarr_episodes = w.sonarr_episodes
  /\ jf_movies = watched_movies
  /\ jf_episodes = None
  /\ now = StartNow
  /\ movies_cache = w.movies_cache
  /\ series_cache = w.series_cache
  /\ episodes_cache = w.episodes_cache
  /\ tags_cache = w.tags_cache
  /\ config = cfg
  /\ stats = CleanupStats
  /\ primary_user_id = ids.user
  /\ radarr_keep_tag_id = ids.radarr
  /\ sonarr_keep_tag_id = ids.sonarr
  /\ todo = <<>>
  /\ error = None
  /\ exit_code = None
  /\ ops = 0
  /\ requests = w.requests
  /\ outcomes = <<>>
  /\ summaries = <<>>
  /\ last = op

\* The process starts at `start`: nothing is fetched, cached or counted yet.
StartsAt(start, cfg) == StartsIn(start, cfg, World0, NoIds, None, NoOp)

\* cleanup.py is run as a script.
Init == StartsAt("main", None)

\* The first lines of main(): loaded is what from_env gave, required the
\* credentials that must not be empty.
Validated(loaded, required) ==
  /\ config' = loaded
  /\ IF loaded = None
     THEN pc' = "exited" /\ exit_code' = Some(1) /\ error' = Some("ValueError")
     ELSE IF \E key \in required : Get(loaded)[key] = <<>>
     THEN pc' = "exited" /\ exit_code' = Some(1) /\ error' = None
     ELSE pc' = "construct" /\ exit_code' = None /\ error' = None

\* A variant of main() that does not validate the series catalog's key.
Main_sonarr_unchecked(env) ==
  /\ pc = "main"
  /\ Validated(from_env(env), {"jellyfin_api_key", "radarr_api_key"})
  /\ last' = [NoOp EXCEPT !.op = "main", !.ok = from_env(env) # None]
  /\ UNCHANGED <<env_vars, mapper_vars, stats, primary_user_id, radarr_keep_tag_id,
                 sonarr_keep_tag_id, todo, ops, requests, outcomes, summaries>>

\* The credentials main() requires.
RequiredKeys == {"jellyfin_api_key", "radarr_api_key", "sonarr_api_key"}

\* main(): the configuration is loaded and validated. The ValueError of
\* from_env is not caught (a traceback and exit code 1, no configuration);
\* with a credential missing the process exits with 1 before anything is
\* built.
Main(env) ==
  /\ pc = "main"
  /\ Validated(from_env(env), RequiredKeys)
  /\ last' = [NoOp EXCEPT !.op = "main", !.ok = from_env(env) # None]
  /\ UNCHANGED <<env_vars, mapper_vars, stats, primary_user_id, radarr_keep_tag_id,
                 sonarr_keep_tag_id, todo, ops, requests, outcomes, summaries>>

\* What __init__ leaves: the world, the exception it raised if any, and the
\* three ids it resolved.
Built(w, err, user, radarr, sonarr) ==
  [w |-> w, error |-> err, user |-> user, radarr |-> radarr, sonarr |-> sonarr]

built_sonarr(user, radarr, sonarr) ==
  IF ~sonarr.ok THEN Built(sonarr.w, Some("TransportError"), user.ret, radarr.ret, None)
  ELSE Built(sonarr.w, None, user.ret, radarr.ret, sonarr.ret)

\* A variant of __init__ that leaves the series catalog's keep tag
\* unresolved.
built_radarr_only(user, radarr, cfg, down) ==
  IF ~radarr.ok THEN Built(radarr.w, Some("TransportError"), user.ret, None, None)
  ELSE Built(radarr.w, None, user.ret, radarr.ret, None)

built_radarr(user, radarr, cfg, down) ==
  IF ~radarr.ok THEN Built(radarr.w, Some("TransportError"), user.ret, None, None)
  ELSE built_sonarr(user, radarr, get_keep_tag_id(radarr.w, "sonarr", cfg, down))

\* A variant of __init__ that goes on without a primary user.
built_user_unchecked(user, cfg, down) ==
  IF ~user.ok THEN Built(user.w, Some("TransportError"), None, None, None)
  ELSE built_radarr(user, get_keep_tag_id(user.w, "radarr", cfg, down), cfg, down)

built_user(user, cfg, down) ==
  IF ~user.ok THEN Built(user.w, Some("TransportError"), None, None, None)
  ELSE IF user.ret = None THEN Built(user.w, Some("ValueError"), None, None, None)
  ELSE built_radarr(user, get_keep_tag_id(user.w, "radarr", cfg, down), cfg, down)

\* MediaCleanup.__init__: the primary user, then the keep-tag id of each
\* catalog.
construct(w, cfg, down) == built_user(get_primary_user_id(w, cfg, down), cfg, down)

\* MediaCleanup(config) in main(). An exception here is not caught: the
\* process ends with a traceback and exit code 1.
Constructed(built) ==
  /\ Becomes(built.w)
  /\ stats' = CleanupStats
  /\ primary_user_id' = built.user
  /\ radarr_keep_tag_id' = built.radarr
  /\ sonarr_keep_tag_id' = built.sonarr
  /\ error' = built.error
  /\ IF built.error = None
     THEN pc' = "run" /\ exit_code' = exit_code
     ELSE pc' = "exited" /\ exit_code' = Some(1)
  /\ last' = [op |-> "construct", ok |-> built.error = None, ret |-> None,
              calls |-> built.w.calls]

Construct(down) ==
  /\ pc = "construct"
  /\ Constructed(construct(World, Get(config), down))
  /\ UNCHANGED <<jf_movies, jf_episodes, now, config, todo, ops, outcomes, summaries>>

\* The watched items still to come fit the bound on what the source reports.
Room == MaxWatched - (IF jf_movies = None THEN 0 ELSE Len(Get(jf_movies)))

\* The watched items are fetched: the request raises, or the list is counted
\* and becomes the phase's work.
FetchedWatched(w, op, down_here, watched) ==
  /\ Becomes(w)
  /\ IF down_here
     THEN /\ pc' = "failed" /\ error' = Some("TransportError")
          /\ UNCHANGED <<jf_movies, jf_episodes, stats, todo>>
          /\ last' = [op |-> op, ok |-> FALSE, ret |-> None, calls |-> w.calls]
     ELSE /\ error' = error
          /\ last' = [op |-> op, ok |-> TRUE, ret |-> Some(watched), calls |-> w.calls]
          /\ IF op = "get_jellyfin_watched_movies"
             THEN /\ jf_movies' = Some(watched) /\ jf_episodes' = jf_episodes
                  /\ stats' = [stats EXCEPT !.movies_watched = Len(watched)]
                  /\ todo' = watched
                  /\ pc' = "movies"
             ELSE /\ jf_episodes' = Some(watched) /\ jf_movies' = jf_movies
                  /\ stats' = [stats EXCEPT !.episodes_watched = Len(watched)]
                  /\ todo' = Flatten(GroupBySeries(watched))
                  /\ pc' = "episodes"

\* A variant of cleanup_movies() that fetches the watched movies again once
\* a movie has been deleted.
FetchWatchedMovies_again(down) ==
  /\ pc = "run" \/ (pc = "movies" /\ requests["radarr_delete"] = 1
                     /\ requests["jf_movies"] = 1)
  /\ \E watched_movies \in
         IF jf_movies = None THEN ListsUpTo(WatchedMovieItems, MaxWatched)
         ELSE {Get(jf_movies)} :
       FetchedWatched(Issue(World, "jf_movies", 0), "get_jellyfin_watched_movies",
                      Raises(down, "jf_movies", 0), watched_movies)
  /\ UNCHANGED <<now, config, primary_user_id, radarr_keep_tag_id,
                 sonarr_keep_tag_id, exit_code, ops, outcomes, summaries>>

\* run() enters cleanup_movies(): the watched movies are fetched and counted.
FetchWatchedMovies(down) ==
  /\ pc = "run"
  /\ \E watched_movies \in
         IF jf_movies = None THEN ListsUpTo(WatchedMovieItems, MaxWatched)
         ELSE {Get(jf_movies)} :
       FetchedWatched(Issue(World, "jf_movies", 0), "get_jellyfin_watched_movies",
                      Raises(down, "jf_movies", 0), watched_movies)
  /\ UNCHANGED <<now, config, primary_user_id, radarr_keep_tag_id,
                 sonarr_keep_tag_id, exit_code, ops, outcomes, summaries>>

\* A variant of the loops in which an exception raised for one item is caught
\* and the loop goes on to the next item.
Stepped_caught(step, phase, op) ==
  /\ Becomes(step.w)
  /\ stats' = Counted(stats, phase, step.out)
  /\ outcomes' = Append(outcomes, step.out)
  /\ todo' = Tail(todo)
  /\ pc' = pc /\ error' = error
  /\ last' = [op |-> op, ok |-> step.ok, ret |-> Some(step.out.class),
              calls |-> step.w.calls]

\* One iteration of a phase's loop has run: the item is counted and logged,
\* and an exception leaves the loop.
Stepped(step, phase, op) ==
  /\ Becomes(step.w)
  /\ stats' = Counted(stats, phase, step.out)
  /\ outcomes' = Append(outcomes, step.out)
  /\ todo' = Tail(todo)
  /\ IF step.ok THEN pc' = pc /\ error' = error
     ELSE pc' = "failed" /\ error' = Some(step.exc)
  /\ last' = [op |-> op, ok |-> step.ok, ret |-> Some(step.out.class),
              calls |-> step.w.calls]

\* One iteration of the loop of cleanup_movies().
CleanupMovie(status, down) ==
  /\ pc = "movies" /\ todo # <<>>
  /\ Stepped(cleanup_movie(World, Head(todo), Get(config), radarr_keep_tag_id,
                           now, status, down), "movies", "cleanup_movie")
  /\ UNCHANGED <<jf_movies, jf_episodes, now, config, primary_user_id,
                 radarr_keep_tag_id, sonarr_keep_tag_id, exit_code, ops, summaries>>

\* A variant of run() in which cleanup_episodes() is entered while watched
\* movies are still to be handled.
FetchWatchedEpisodes_early(down) ==
  /\ pc = "movies"
  /\ \E watched_episodes \in
         IF jf_episodes = None THEN ListsUpTo(WatchedEpisodeItems, Room)
         ELSE {Get(jf_episodes)} :
       FetchedWatched(Issue(World, "jf_episodes", 0), "get_jellyfin_watched_episodes",
                      Raises(down, "jf_episodes", 0), watched_episodes)
  /\ UNCHANGED <<now, config, primary_user_id, radarr_keep_tag_id,
                 sonarr_keep_tag_id, exit_code, ops, outcomes, summaries>>

\* cleanup_movies() has returned and run() enters cleanup_episodes(): the
\* watched episodes are fetched, counted and grouped by series name.
FetchWatchedEpisodes(down) ==
  /\ pc = "movies" /\ todo = <<>>
  /\ \E watched_episodes \in
         IF jf_episodes = None THEN ListsUpTo(WatchedEpisodeItems, Room)
         ELSE {Get(jf_episodes)} :
       FetchedWatched(Issue(World, "jf_episodes", 0), "get_jellyfin_watched_episodes",
                      Raises(down, "jf_episodes", 0), watched_episodes)
  /\ UNCHANGED <<now, config, primary_user_id, radarr_keep_tag_id,
                 sonarr_keep_tag_id, exit_code, ops, outcomes, summaries>>

\* One iteration of the inner loop of cleanup_episodes().
CleanupEpisode(status, down) ==
  /\ pc = "episodes" /\ todo # <<>>
  /\ Stepped(cleanup_episode(World, Head(todo), Get(config), now, status, down),
             "episodes", "cleanup_episode")
  /\ UNCHANGED <<jf_movies, jf_episodes, now, config, primary_user_id,
                 radarr_keep_tag_id, sonarr_keep_tag_id, exit_code, ops, summaries>>

\* The finally clause of run(): the summary is printed, after both phases
\* or after the exception that ended them; run() then returns or re-raises.
Finally ==
  /\ (pc = "episodes" /\ todo = <<>>) \/ pc = "failed"
  /\ summaries' = Append(summaries, stats)
  /\ pc' = IF error = None THEN "returned" ELSE "raised"
  /\ last' = [NoOp EXCEPT !.op = "print_summary"]
  /\ UNCHANGED <<env_vars, mapper_vars, config, stats, primary_user_id,
                 radarr_keep_tag_id, sonarr_keep_tag_id, todo, error, exit_code,
                 ops, requests, outcomes>>

\* main() after run(): the exit code. An exception out of run() is not
\* caught: the process ends with exit code 1.
Exit ==
  /\ pc \in {"returned", "raised"}
  /\ exit_code' =
       IF pc = "raised" THEN Some(1)
       ELSE IF ~Get(config).dry_run
               /\ (stats.movies_failed > 0 \/ stats.episodes_failed > 0)
       THEN Some(1)
       ELSE Some(0)
  /\ pc' = "exited"
  /\ last' = [NoOp EXCEPT !.op = "exit"]
  /\ UNCHANGED <<env_vars, mapper_vars, config, stats, primary_user_id,
                 radarr_keep_tag_id, sonarr_keep_tag_id, todo, error,
                 ops, requests, outcomes, summaries>>

\* The most hours the clock advances while a run is under way.
MaxDrift == 1

\* Time passes between two readings of datetime.now() during a phase.
Tick ==
  /\ pc \in {"movies", "episodes"}
  /\ now < StartNow + MaxDrift
  /\ now' = now + 1
  /\ last' = [NoOp EXCEPT !.op = "tick"]
  /\ UNCHANGED <<radarr_movies, sonarr_episodes, jf_movies, jf_episodes,
                 mapper_vars, cleanup_vars, requests, outcomes, summaries>>

Next ==
  \/ \E env \in Envs : Main(env)
  \/ \E down \in Downs({"jf_users", "radarr_tag", "sonarr_tag"}) : Construct(down)
  \/ \E down \in Downs({"jf_movies"}) : FetchWatchedMovies(down)
  \/ \E status \in Statuses, down \in Downs({"radarr_movie", "radarr_delete"}) :
        CleanupMovie(status, down)
  \/ \E down \in Downs({"jf_episodes"}) : FetchWatchedEpisodes(down)
  \/ \E status \in Statuses,
        down \in Downs({"sonarr_series", "sonarr_episode", "sonarr_delete"}) :
        CleanupEpisode(status, down)
  \/ Finally
  \/ Exit
  \/ Tick

Spec == Init /\ [][Next]_vars
\* ------------------------------------------- the Mapper used directly

\* The most operations a direct user of the Mapper calls.
MaxOps == 3

\* The most ids handed to one bulk delete.
MaxBulk == 2

\* The arguments a direct user passes.
MoviePaths ==
  {jellyfin_movie_prefix_default \o Str1(c) : c \in {"A", "a", "C", "Z"}}
  \cup {jellyfin_movie_prefix_default \o TheMatrix}
TmdbIds == {<<"1","1">>, <<"1","3">>, <<"N","o","n","e">>}
MovieIds == {0, 1, 9}
EpisodePaths == {jellyfin_tv_prefix_default \o Str1(c) : c \in {"E", "F", "G"}}
SeriesIds == {None, Some(0), Some(1), Some(2)}
FileIds == {7, 8}

\* The status codes a delete can be answered with: none is received when no
\* request is sent (dry run) or when the request fails in transport.
StatusesOf(dry_run, ep, down) ==
  IF dry_run \/ down.ep = ep THEN {HTTP_OK} ELSE Statuses

\* A movie catalog with a single movie that has a file: the first and the
\* third entry of the catalog above.
RadarrMoviesSmall == <<RadarrMovies0[1], RadarrMovies0[3]>>

\* A MediaMapper has been built (media_mapper.py's example usage, or any
\* other caller of the class), against the catalog above or the small one.
InitMapper ==
  \E movies \in {RadarrMovies0, RadarrMoviesSmall} :
     StartsIn("mapper", None, [World0 EXCEPT !.radarr_movies = movies], NoIds, None, NoOp)

\* One operation of the Mapper has been called with args and gave res.
Called(op, args, res) ==
  /\ Becomes(res.w)
  /\ ops' = ops + 1
  /\ last' = [op |-> op, args |-> args, ok |-> res.ok, ret |-> res.ret,
              calls |-> res.w.calls]
  /\ UNCHANGED <<jf_movies, jf_episodes, now, config, stats, primary_user_id,
                 radarr_keep_tag_id, sonarr_keep_tag_id, pc, todo, error, exit_code,
                 outcomes, summaries>>

Calling == pc = "mapper" /\ ops < MaxOps

\* What `last` keeps of a delete call's arguments.
DeleteArgs(id, dry_run, status) == [id |-> id, dry_run |-> dry_run, status |-> status]

CallGetAllRadarrMovies(down) ==
  /\ Calling
  /\ Called("_get_all_radarr_movies", None, get_all_radarr_movies(World, down))

CallGetRadarrTags(down) ==
  /\ Calling
  /\ Called("get_radarr_tags", None, get_radarr_tags(World, down))

CallGetSonarrTags(down) ==
  /\ Calling
  /\ Called("get_sonarr_tags", None, get_sonarr_tags(World, down))

CallFindMovieByPath(jellyfin_path, down) ==
  /\ Calling
  /\ Called("find_radarr_movie_by_path", jellyfin_path,
            find_radarr_movie_by_path(World, jellyfin_path, down))

CallFindMovieByTmdb(tmdb_id, down) ==
  /\ Calling
  /\ Called("find_radarr_movie_by_tmdb", tmdb_id,
            find_radarr_movie_by_tmdb(World, tmdb_id, down))

CallDeleteMovie(movie_id, dry_run, status, down) ==
  /\ Calling
  /\ Called("delete_radarr_movie", DeleteArgs(movie_id, dry_run, status),
            delete_radarr_movie(World, movie_id, dry_run, status, down))

CallFindEpisodeByPath(jellyfin_path, series_id, down) ==
  /\ Calling
  /\ Called("find_sonarr_episode_by_path",
            [path |-> jellyfin_path, series_id |-> series_id],
            find_sonarr_episode_by_path(World, jellyfin_path, series_id, down))

CallDeleteEpisodeFile(episode_file_id, dry_run, status, down) ==
  /\ Calling
  /\ Called("delete_sonarr_episode_file", DeleteArgs(episode_file_id, dry_run, status),
            delete_sonarr_episode_file(World, episode_file_id, dry_run, status, down))

CallBulkDeleteEpisodeFiles(episode_file_ids, dry_run, status, down) ==
  /\ Calling
  /\ Called("bulk_delete_sonarr_episode_files",
            DeleteArgs(episode_file_ids, dry_run, status),
            bulk_delete_sonarr_episode_files(World, episode_file_ids, dry_run, status, down))

NextMapper ==
  \/ \E down \in Downs({"radarr_movie"}) : CallGetAllRadarrMovies(down)
  \/ \E down \in Downs({"radarr_tag"}) : CallGetRadarrTags(down)
  \/ \E down \in Downs({"sonarr_tag"}) : CallGetSonarrTags(down)
  \/ \E p \in MoviePaths, down \in Downs({"radarr_movie"}) : CallFindMovieByPath(p, down)
  \/ \E t \in TmdbIds, down \in Downs({"radarr_movie"}) : CallFindMovieByTmdb(t, down)
  \/ \E id \in MovieIds, dry_run \in BOOLEAN, down \in Downs({"radarr_delete"}) :
        \E status \in StatusesOf(dry_run, "radarr_delete", down) :
           CallDeleteMovie(id, dry_run, status, down)
  \/ \E p \in EpisodePaths, sid \in SeriesIds,
        down \in Downs({"sonarr_series", "sonarr_episode"}) :
        CallFindEpisodeByPath(p, sid, down)
  \/ \E id \in FileIds, dry_run \in BOOLEAN, down \in Downs({"sonarr_delete"}) :
        \E status \in StatusesOf(dry_run, "sonarr_delete", down) :
           CallDeleteEpisodeFile(id, dry_run, status, down)
  \/ \E ids \in ListsUpTo(FileIds, MaxBulk), dry_run \in BOOLEAN,
        down \in Downs({"sonarr_bulk"}) :
        \E status \in StatusesOf(dry_run, "sonarr_bulk", down) :
           CallBulkDeleteEpisodeFiles(ids, dry_run, status, down)

SpecMapper == InitMapper /\ [][NextMapper]_vars

\* ------------------------------------------- the grace-period policy alone

\* The longest grace period, in days, and how many days back a timestamp lies.
MaxGraceDays == 6
MaxDaysAgo == 10

\* The timestamps handed to _is_past_grace_period: within two hours of each
\* whole number of days before the first reading of the clock, at UTC and
\* one hour either side of it.
LastPlayedDates ==
  {Iso(StartNow - 24 * k + h, z) : k \in 0..MaxDaysAgo, h \in -2..2, z \in {-1, 0, 1}}

\* A configuration whose grace period is read from GRACE_PERIOD_DAYS.
GraceEnv(days) ==
  [CredentialsOnly EXCEPT !.GRACE_PERIOD_DAYS = Some(StrOfInt(days))] @@ LocationsUnset

\* Grace periods that take the cutoff to the edges of the calendar and
\* beyond them: the first hour of datetime.min's day at the first reading of
\* the clock, the day before it, and far before and far after the calendar.
EdgeGraceDays == {739616 + 30, 739616 + 31, 800000, -4000000}

\* MediaCleanup(cfg) has been constructed with no request failing: the
\* primary user and the two keep tags are resolved, the tag lists cached.
ConstructedAt(start, cfg) ==
  LET built == construct(World0, cfg, NoDown)
  IN StartsIn(start, Some(cfg), built.w, built, None,
              [op |-> "construct", ok |-> TRUE, ret |-> None, calls |-> built.w.calls])

\* MediaCleanup(CleanupConfig.from_env()) with GRACE_PERIOD_DAYS set.
InitGrace ==
  \E days \in (0..MaxGraceDays) \cup EdgeGraceDays :
     ConstructedAt("grace", Get(from_env(GraceEnv(days))))

\* self._is_past_grace_period(last_played_date) is evaluated: it returns
\* its verdict, or raises OverflowError.
CheckGrace(last_played_date) ==
  /\ pc = "grace"
  /\ last' = [op |-> "_is_past_grace_period", args |-> last_played_date,
              ok |-> is_past_grace_period(last_played_date, now,
                                          Get(config).grace_period_days) # None,
              ret |-> is_past_grace_period(last_played_date, now,
                                           Get(config).grace_period_days),
              calls |-> <<>>]
  /\ UNCHANGED <<env_vars, mapper_vars, cleanup_vars, requests, outcomes, summaries>>

\* Time passes between two evaluations.
TickGrace ==
  /\ pc = "grace"
  /\ now < StartNow + MaxDrift
  /\ now' = now + 1
  /\ last' = [NoOp EXCEPT !.op = "tick"]
  /\ UNCHANGED <<radarr_movies, sonarr_episodes, jf_movies, jf_episodes,
                 mapper_vars, cleanup_vars, requests, outcomes, summaries>>

NextGrace ==
  \/ \E last_played_date \in LastPlayedDates : CheckGrace(last_played_date)
  \/ TickGrace

SpecGrace == InitGrace /\ [][NextGrace]_vars

\* ------------------------------------------- properties of the cleanup run

\* The outcome of the watched item handled last, and whether the step just
\* taken handled it (the clock then still reads what the grace check read).
LastOutcome == outcomes[Len(outcomes)]
JustCleaned == last.op \in {"cleanup_movie", "cleanup_episode"}

\* The delete requests sent for one watched item.
DeleteCalls(o) ==
  Cardinality({i \in DOMAIN o.calls : o.calls[i].ep \in MutatingEndpoints})

\* A delete operation of the Mapper was invoked for the item: it returned
\* (also in dry-run, where nothing is sent), or its request raised.
DeleteInvoked(o) == o.class \in {"Deleted", "Failed"} \/ DeleteCalls(o) > 0

\* The instant before which an item is past the grace period.
Cutoff == now - 24 * Get(config).grace_period_days

\* The item has a last-played timestamp and it lies before the cutoff, a
\* date of the calendar.
PlayedBeforeCutoff(item) ==
  /\ item.LastPlayedDate # None
  /\ InCalendar(Cutoff)
  /\ fromisoformat(Get(item.LastPlayedDate)) < Cutoff

\* The catalog entries a resolved id stands for.
MoviesOfId(id) == {m \in Range(RadarrMovies0) : m.hasFile /\ m.id = id}
EpisodesOfFile(id) ==
  {e \in UNION {Range(SonarrEpisodes0[sid]) : sid \in DOMAIN SonarrEpisodes0} :
     e.hasFile /\ e.episodeFileId = id}

\* The entry carries the keep tag the run resolved for the movie catalog.
CarriesKeepTag(m) ==
  radarr_keep_tag_id # None /\ Get(radarr_keep_tag_id) \in Range(m.tags)

\* The outcomes of one kind in the given classes, and those counted eligible.
Count(kind, classes) ==
  Cardinality({i \in DOMAIN outcomes :
                 outcomes[i].kind = kind /\ outcomes[i].class \in classes})
CountEligible(kind) ==
  Cardinality({i \in DOMAIN outcomes : outcomes[i].kind = kind /\ outcomes[i].eligible})

TerminalClasses ==
  {"UnknownSkip", "GraceSkip", "NotFoundSkip", "TagSkip", "Deleted", "Failed"}

\* What the log holds for the item at which an exception ended the run: an
\* error of a request made for it once it was counted eligible, or the
\* OverflowError of its grace check.
AbortClasses == {"Aborted", "OverflowError"}

\* C1: in every run, dry or real, a delete is invoked for a watched item only
\* if the item has a last-played timestamp, that timestamp is strictly before
\* the grace-period cutoff, the item resolved to a catalog id (the one the
\* delete is sent for), and, for a movie, the catalog entry of that id does
\* not carry the resolved keep tag; an episode needs no tag condition.
DeleteOnlyAfterAllChecks ==
  (JustCleaned /\ DeleteInvoked(LastOutcome)) =>
     /\ PlayedBeforeCutoff(LastOutcome.item)
     /\ LastOutcome.id # None
     /\ \A i \in DOMAIN LastOutcome.calls :
          LastOutcome.calls[i].ep \in MutatingEndpoints =>
             /\ LastOutcome.calls[i].arg = Get(LastOutcome.id)
             /\ LastOutcome.calls[i].ep =
                  (IF LastOutcome.kind = "movie" THEN "radarr_delete" ELSE "sonarr_delete")
     /\ LastOutcome.kind = "movie" =>
          /\ MoviesOfId(Get(LastOutcome.id)) # {}
          /\ \A m \in MoviesOfId(Get(LastOutcome.id)) : ~CarriesKeepTag(m)
     /\ LastOutcome.kind = "episode" => EpisodesOfFile(Get(LastOutcome.id)) # {}

\* A real run with the keep tag resolved has just had a movie deleted by a
\* request to the movie catalog.
DeleteOnlyAfterAllChecksWitness ==
  /\ JustCleaned /\ LastOutcome.kind = "movie" /\ LastOutcome.class = "Deleted"
  /\ DeleteCalls(LastOutcome) = 1
  /\ radarr_keep_tag_id # None
  /\ ~Get(config).dry_run

\* C2: every watched item a phase has handled is in exactly one class --
\* UnknownSkip, GraceSkip, NotFoundSkip, TagSkip (movies only), Deleted or
\* Failed, unless an exception ended the run at that item -- and is counted
\* in that class's counter alone; the eligible counter counts exactly the
\* items that have a last-played timestamp before the cutoff, whether or not
\* they are matched afterwards; and at most one delete request is sent per
\* item.
OneTerminalClassPerItem ==
  /\ \A i \in DOMAIN outcomes :
       /\ outcomes[i].class \in TerminalClasses \cup AbortClasses
       /\ outcomes[i].class \in AbortClasses => (i = Len(outcomes) /\ error # None)
       /\ outcomes[i].class = "TagSkip" => outcomes[i].kind = "movie"
       /\ outcomes[i].eligible <=>
            outcomes[i].class \notin {"UnknownSkip", "GraceSkip", "OverflowError"}
       /\ DeleteCalls(outcomes[i]) <= 1
       /\ DeleteCalls(outcomes[i]) = 1 =>
             outcomes[i].class \in {"Deleted", "Failed", "Aborted"}
  /\ JustCleaned => (LastOutcome.eligible <=> PlayedBeforeCutoff(LastOutcome.item))
  /\ stats.movies_eligible = CountEligible("movie")
  /\ stats.movies_skipped_not_found = Count("movie", {"NotFoundSkip"})
  /\ stats.movies_skipped_tag = Count("movie", {"TagSkip"})
  /\ stats.movies_deleted = Count("movie", {"Deleted"})
  /\ stats.movies_failed = Count("movie", {"Failed"})
  /\ stats.episodes_eligible = CountEligible("episode")
  /\ stats.episodes_skipped_not_found = Count("episode", {"NotFoundSkip"})
  /\ stats.episodes_deleted = Count("episode", {"Deleted"})
  /\ stats.episodes_failed = Count("episode", {"Failed"})
  /\ stats.movies_eligible =
       stats.movies_skipped_not_found + stats.movies_skipped_tag
       + stats.movies_deleted + stats.movies_failed + Count("movie", {"Aborted"})
  /\ stats.episodes_eligible =
       stats.episodes_skipped_not_found + stats.episodes_skipped_tag
       + stats.episodes_deleted + stats.episodes_failed + Count("episode", {"Aborted"})
  /\ pc = "movies" =>
       Count("movie", TerminalClasses) = stats.movies_watched - Len(todo)
  /\ pc = "episodes" =>
       /\ Count("movie", TerminalClasses) = stats.movies_watched
       /\ Count("episode", TerminalClasses) = stats.episodes_watched - Len(todo)

\* A real run has handled two items: one eligible but unmatched, then one
\* whose delete the catalog refused.
OneTerminalClassPerItemWitness ==
  /\ Len(outcomes) = 2
  /\ outcomes[1].class = "NotFoundSkip" /\ outcomes[1].eligible
  /\ outcomes[2].class = "Failed" /\ DeleteCalls(outcomes[2]) = 1

\* C4: a watched movie or episode without a last-played timestamp is never
\* eligible: it is not counted eligible, nothing is looked up or deleted for
\* it (no request is sent, no id is resolved), no error is raised, and the
\* phase goes on to its next item.
NoLastPlayedNeverEligible ==
  /\ \A i \in DOMAIN outcomes :
       outcomes[i].item.LastPlayedDate = None =>
          /\ outcomes[i].class = "UnknownSkip"
          /\ ~outcomes[i].eligible
          /\ outcomes[i].id = None
          /\ outcomes[i].calls = <<>>
  /\ \A kind \in {"movie", "episode"} :
       (IF kind = "movie" THEN stats.movies_eligible ELSE stats.episodes_eligible)
       <= Cardinality({i \in DOMAIN outcomes :
                         /\ outcomes[i].kind = kind
                         /\ outcomes[i].item.LastPlayedDate # None})
  /\ (JustCleaned /\ LastOutcome.item.LastPlayedDate = None) =>
       /\ last.ok /\ error = None
       /\ pc = (IF LastOutcome.kind = "movie" THEN "movies" ELSE "episodes")

\* An episode without a last-played timestamp was skipped while nothing of
\* the series catalog was cached yet (a lookup would have sent a request),
\* and the item after it has been handled.
NoLastPlayedNeverEligibleWitness ==
  /\ Len(outcomes) = 2
  /\ outcomes[1].kind = "episode" /\ outcomes[1].item.LastPlayedDate = None
  /\ outcomes[2].class = "Deleted"
  /\ requests["sonarr_series"] = 1

\* C5: tag exclusion of movies fails open: a movie that passed the match is
\* skipped for its keep tag iff the tags of its catalog entry contain the
\* keep-tag id the run resolved; when the label resolved to no tag of the
\* movie catalog, construction still succeeds and no movie is skipped for
\* its tags.
TagSkipIffKeepTag ==
  /\ \A i \in DOMAIN outcomes :
       (outcomes[i].kind = "movie"
        /\ (outcomes[i].class \in {"TagSkip", "Deleted", "Failed"}
            \/ DeleteCalls(outcomes[i]) > 0)) =>
          (outcomes[i].class = "TagSkip" <=>
             \E m \in MoviesOfId(Get(outcomes[i].id)) : CarriesKeepTag(m))
  /\ radarr_keep_tag_id = None =>
       (stats.movies_skipped_tag = 0 /\ Count("movie", {"TagSkip"}) = 0)
  /\ (last.op = "construct" /\ DictHas(tags_cache, "radarr")
      /\ DictHas(tags_cache, "sonarr")) => (last.ok /\ pc = "run" /\ error = None)

\* With the label unresolved, the movie whose entry carries tags 2 and 5 was
\* deleted.
TagSkipIffKeepTagWitness ==
  /\ JustCleaned /\ LastOutcome.kind = "movie" /\ LastOutcome.class = "Deleted"
  /\ radarr_keep_tag_id = None
  /\ \E m \in MoviesOfId(Get(LastOutcome.id)) : 5 \in Range(m.tags)

\* With the label resolved, that movie was skipped for its tag.
TagSkipResolved ==
  /\ JustCleaned /\ LastOutcome.class = "TagSkip" /\ radarr_keep_tag_id = Some(5)

\* C6: no tag check is applied to episodes: the episodes' keep-tag counter
\* is 0 in every state, and an eligible episode that was matched goes on to
\* the delete operation, also when a keep-tag id was resolved for the series
\* catalog.
EpisodesNeverTagSkipped ==
  /\ stats.episodes_skipped_tag = 0
  /\ \A i \in DOMAIN outcomes :
       (outcomes[i].kind = "episode" /\ outcomes[i].eligible
        /\ TruthyInt(outcomes[i].id)) => DeleteInvoked(outcomes[i])

\* With a keep-tag id resolved for the series catalog, an episode was
\* deleted by a request to it.
EpisodesNeverTagSkippedWitness ==
  /\ sonarr_keep_tag_id # None
  /\ JustCleaned /\ LastOutcome.kind = "episode" /\ LastOutcome.class = "Deleted"
  /\ DeleteCalls(LastOutcome) = 1

\* ------------------------------------------- properties of the grace check

\* The instant of the timestamp the grace check was last given, in hours.
CheckedInstant == last.args.t - last.args.utcoffset

\* The grace check found the timestamp past the grace period.
FoundPast == last.ok /\ Get(last.ret)

\* C3 as stated: for every last-played timestamp, clock reading and grace
\* period, the item is past the grace period iff its last-played instant is
\* before now minus the grace period, a timestamp exactly at the cutoff is
\* not; with a grace period of 5 days an item played 10 days ago is eligible
\* and one played 2 days ago is not.
GraceCheckIsStrict ==
  last.op = "_is_past_grace_period" =>
     /\ FoundPast <=> (CheckedInstant < Cutoff)
     /\ CheckedInstant = Cutoff => ~FoundPast
     /\ (Get(config).grace_period_days = 5 /\ CheckedInstant = now - 24 * 10) => FoundPast
     /\ (Get(config).grace_period_days = 5 /\ CheckedInstant = now - 24 * 2) => ~FoundPast

\* C3, amended: the grace check gives a verdict exactly when the cutoff, now
\* minus the grace period, is a date of the calendar, and raises
\* OverflowError otherwise; its verdict is a strict comparison: the item is
\* past the grace period iff its last-played instant is before the cutoff,
\* so a timestamp exactly at the cutoff is not eligible; with a grace period
\* of 5 days an item played 10 days ago is eligible and one played 2 days
\* ago is not.
GraceCheckIsStrictInCalendar ==
  last.op = "_is_past_grace_period" =>
     /\ last.ok <=> InCalendar(Cutoff)
     /\ ~last.ok => last.ret = None
     /\ last.ok =>
          /\ Get(last.ret) <=> (CheckedInstant < Cutoff)
          /\ CheckedInstant = Cutoff => ~Get(last.ret)
          /\ (Get(config).grace_period_days = 5 /\ CheckedInstant = now - 24 * 10)
                => Get(last.ret)
          /\ (Get(config).grace_period_days = 5 /\ CheckedInstant = now - 24 * 2)
                => ~Get(last.ret)

\* With a grace period of 5 days, a timestamp written with a UTC offset and
\* lying exactly at the cutoff was checked after the clock had advanced, and
\* was found within the grace period.
GraceCheckIsStrictInCalendarWitness ==
  /\ last.op = "_is_past_grace_period" /\ last.ok
  /\ Get(config).grace_period_days = 5
  /\ now > StartNow
  /\ last.args.utcoffset # 0
  /\ CheckedInstant = Cutoff
  /\ ~Get(last.ret)

\* The cutoff at the first hour of the calendar: a verdict is given; a day
\* earlier (the grace period a day longer): OverflowError.
GraceCheckAtCalendarStart ==
  /\ last.op = "_is_past_grace_period" /\ last.ok /\ Cutoff = datetime_min
GraceCheckBeforeCalendarStart ==
  /\ last.op = "_is_past_grace_period" /\ ~last.ok /\ Cutoff = datetime_min - 24
\* A cutoff after the end of the calendar: the timestamp lies before it,
\* and the check raised.
GraceCheckAfterCalendarEnd ==
  /\ last.op = "_is_past_grace_period" /\ ~last.ok
  /\ Cutoff >= datetime_end /\ CheckedInstant < Cutoff

\* The two examples: played 10 days ago, and played 2 days ago.
GraceCheckTenDaysAgo ==
  /\ last.op = "_is_past_grace_period" /\ Get(config).grace_period_days = 5
  /\ CheckedInstant = now - 24 * 10 /\ FoundPast
GraceCheckTwoDaysAgo ==
  /\ last.op = "_is_past_grace_period" /\ Get(config).grace_period_days = 5
  /\ CheckedInstant = now - 24 * 2 /\ last.ok /\ ~Get(last.ret)

\* ------------------------------------------- properties of the Mapper's deletes

\* The Mapper as the cleanup run uses it, or as a direct caller does.
SpecAnyUse == (Init \/ InitMapper) /\ [][Next \/ NextMapper]_vars

DeleteOps ==
  {"delete_radarr_movie", "delete_sonarr_episode_file", "bulk_delete_sonarr_episode_files"}

\* The step is a call of the Mapper's operation op by a direct caller.
IsCall(op) == pc = "mapper" /\ last'.op = op

\* The step is a real-mode delete op that returned success.
RealDeleteSucceeds(op) ==
  IsCall(op) /\ ~last'.args.dry_run /\ last'.ok /\ last'.ret = TRUE

\* A step of a dry-run delete: success, no request, no cache touched.
DryRunDelete ==
  (pc = "mapper" /\ last'.op \in DeleteOps /\ last'.args.dry_run) =>
     /\ last'.ok /\ last'.ret = TRUE
     /\ last'.calls = <<>>
     /\ requests' = requests
     /\ mapper_vars' = mapper_vars
     /\ radarr_movies' = radarr_movies /\ sonarr_episodes' = sonarr_episodes

\* A step of a dry-run cleanup run: no mutating request has been sent, and
\* the catalogs are as they were.
DryRunStep ==
  (pc \in {"run", "movies", "episodes"} /\ Get(config).dry_run) =>
     /\ \A ep \in MutatingEndpoints : requests'[ep] = 0
     /\ radarr_movies' = radarr_movies /\ sonarr_episodes' = sonarr_episodes
     /\ stats'.movies_failed = 0 /\ stats'.episodes_failed = 0

\* C7: in dry-run mode each delete operation of the Mapper (movie, episode
\* file, bulk) returns success, sends no mutating request and leaves the
\* movie, series, episode and tag caches exactly as they were; so a dry-run
\* cleanup run sends no mutating request to either catalog.
DryRunChangesNothing == [][DryRunDelete /\ DryRunStep]_vars

\* A dry-run delete of a movie the movie cache holds has returned.
DryRunChangesNothingWitness ==
  /\ pc = "mapper" /\ last.op = "delete_radarr_movie" /\ last.args.dry_run
  /\ movies_cache # None /\ DictHas(Get(movies_cache), last.args.id)
  /\ last.ret = TRUE

\* A dry-run cleanup run has ended having counted a movie and an episode
\* deleted.
DryRunRunEnded ==
  /\ pc = "exited" /\ config # None /\ Get(config).dry_run
  /\ stats.movies_deleted = 1 /\ stats.episodes_deleted = 1
  /\ \A ep \in MutatingEndpoints : requests[ep] = 0

\* C8: a successful real-mode delete of movie id removes exactly id's entry
\* from the movie cache: id is no key of it afterwards, every other entry is
\* as it was (a cache never filled stays so), the series, episode and tag
\* caches are unchanged, and the movie list is not fetched again because of
\* the deletion: not by it, and not by any later call while the cache is
\* filled.
MovieDeleteStep ==
  /\ RealDeleteSucceeds("delete_radarr_movie") =>
       /\ movies_cache = None => movies_cache' = None
       /\ movies_cache # None =>
            /\ movies_cache' # None
            /\ ~DictHas(Get(movies_cache'), last'.args.id)
            /\ Get(movies_cache') =
                 SelectSeq(Get(movies_cache), LAMBDA e : e.k # last'.args.id)
       /\ series_cache' = series_cache
       /\ episodes_cache' = episodes_cache
       /\ tags_cache' = tags_cache
       /\ last'.calls = <<Call("radarr_delete", last'.args.id)>>
  /\ (pc = "mapper" /\ movies_cache # None) =>
       (movies_cache' # None /\ requests'["radarr_movie"] = requests["radarr_movie"])
MovieDeleteInvalidatesOneEntry == [][MovieDeleteStep]_vars

\* Movie 1 was deleted after the movie list had been fetched: the cache
\* still holds movie 2.
MovieDeleteInvalidatesOneEntryWitness ==
  /\ pc = "mapper" /\ last.op = "delete_radarr_movie" /\ ~last.args.dry_run
  /\ last.ok /\ last.ret = TRUE /\ last.args.id = 1
  /\ requests["radarr_movie"] = 1 /\ requests["radarr_delete"] = 1
  /\ movies_cache # None
  /\ DictHas(Get(movies_cache), 2) /\ ~DictHas(Get(movies_cache), 1)

\* C9: a successful real-mode delete of an episode file clears the episode
\* cache of every series, so that the episode lookup that follows fetches
\* the episode list of each series it scans again; the series, movie and tag
\* caches are left as they were.
EpisodeDeleteStep ==
  /\ RealDeleteSucceeds("delete_sonarr_episode_file") =>
       /\ episodes_cache' = <<>>
       /\ series_cache' = series_cache
       /\ movies_cache' = movies_cache
       /\ tags_cache' = tags_cache
       /\ last'.calls = <<Call("sonarr_delete", last'.args.id)>>
  /\ (pc = "mapper" /\ last.op = "delete_sonarr_episode_file" /\ ~last.args.dry_run
      /\ last.ok /\ last.ret = TRUE /\ last'.op = "find_sonarr_episode_by_path") =>
       /\ \A i \in DOMAIN episodes_cache' :
            Call("sonarr_episode", episodes_cache'[i].k) \in Range(last'.calls)
       /\ (last'.ok /\ (TruthyInt(last'.args.series_id) \/ series_cache' # None)) =>
            \E i \in DOMAIN last'.calls : last'.calls[i].ep = "sonarr_episode"
EpisodeDeleteClearsEpisodeCache == [][EpisodeDeleteStep]_vars

\* An episode file was deleted after the episode lists of both series had
\* been fetched: the episode cache is empty, the series cache is filled.
EpisodeDeleteClearsEpisodeCacheWitness ==
  /\ pc = "mapper" /\ last.op = "delete_sonarr_episode_file" /\ ~last.args.dry_run
  /\ last.ok /\ last.ret = TRUE
  /\ requests["sonarr_episode"] = 2 /\ requests["sonarr_delete"] = 1
  /\ episodes_cache = <<>> /\ series_cache # None

\* The lookup after such a delete has fetched the list of series 1 again.
EpisodeLookupFetchesAgain ==
  /\ pc = "mapper" /\ last.op = "find_sonarr_episode_by_path"
  /\ requests["sonarr_delete"] = 1 /\ requests["sonarr_episode"] = 2
  /\ last.args.series_id = Some(1) /\ last.calls = <<Call("sonarr_episode", 1)>>
  /\ series_cache = None

\* C10: the bulk delete of N episode files: in dry-run it returns success
\* with no request and the episode cache untouched, whatever N is; in real
\* mode the one request is sent, an answer of success clears the whole
\* episode cache whatever N is (N = 0 and ids of one series included), and
\* any other answer returns false and leaves the cache as it was.
BulkDeleteStep ==
  IsCall("bulk_delete_sonarr_episode_files") =>
     /\ last'.args.dry_run =>
          /\ last'.ok /\ last'.ret = TRUE
          /\ last'.calls = <<>> /\ requests' = requests
          /\ episodes_cache' = episodes_cache
     /\ ~last'.args.dry_run =>
          last'.calls = <<Call("sonarr_bulk", Len(last'.args.id))>>
     /\ (~last'.args.dry_run /\ last'.ok /\ last'.args.status = HTTP_OK) =>
          (last'.ret = TRUE /\ episodes_cache' = <<>>)
     /\ (~last'.args.dry_run /\ last'.ok /\ last'.args.status # HTTP_OK) =>
          (last'.ret = FALSE /\ episodes_cache' = episodes_cache)
     /\ series_cache' = series_cache /\ movies_cache' = movies_cache
     /\ tags_cache' = tags_cache
BulkDeleteClearsEpisodeCache == [][BulkDeleteStep]_vars

\* A real-mode bulk delete of no file at all succeeded after episode lists
\* had been fetched: the episode cache is empty.
BulkDeleteClearsEpisodeCacheWitness ==
  /\ pc = "mapper" /\ last.op = "bulk_delete_sonarr_episode_files"
  /\ ~last.args.dry_run /\ last.args.id = <<>>
  /\ last.ok /\ last.ret = TRUE
  /\ requests["sonarr_episode"] > 0 /\ requests["sonarr_bulk"] = 1
  /\ episodes_cache = <<>>

\* A real-mode bulk delete was refused with the episode cache filled.
BulkDeleteRefused ==
  /\ pc = "mapper" /\ last.op = "bulk_delete_sonarr_episode_files"
  /\ ~last.args.dry_run /\ Len(last.args.id) = 2
  /\ last.ok /\ last.ret = FALSE /\ episodes_cache # <<>>

\* ------------------------------------------- properties of error handling

\* The step handled a watched item, and what became of it.
HandlesItem == last'.op \in {"cleanup_movie", "cleanup_episode"}
Handled == outcomes'[Len(outcomes')]

\* The counters after one more eligible item of the kind was counted failed.
CountedFailed(st, kind) ==
  IF kind = "movie"
  THEN [st EXCEPT !.movies_eligible = @ + 1, !.movies_failed = @ + 1]
  ELSE [st EXCEPT !.episodes_eligible = @ + 1, !.episodes_failed = @ + 1]

\* A real-mode delete of the Mapper answered with a status other than 200.
RefusedDelete ==
  (pc = "mapper" /\ last'.op \in DeleteOps /\ ~last'.args.dry_run /\ last'.ok
   /\ last'.args.status # HTTP_OK) =>
     /\ last'.ret = FALSE
     /\ mapper_vars' = mapper_vars
     /\ radarr_movies' = radarr_movies /\ sonarr_episodes' = sonarr_episodes

\* A watched item of a run whose delete was refused.
RefusedItem ==
  (pc \in {"movies", "episodes"} /\ HandlesItem /\ Handled.class = "Failed") =>
     /\ last'.ok /\ error' = None /\ pc' = pc
     /\ todo' = Tail(todo)
     /\ stats' = CountedFailed(stats, Handled.kind)
     /\ DeleteCalls(Handled) = 1
     /\ radarr_movies' = radarr_movies /\ sonarr_episodes' = sonarr_episodes
     /\ Handled.kind = "movie" =>
          (movies_cache' # None /\ DictHas(Get(movies_cache'), Get(Handled.id)))
     /\ Handled.kind = "episode" =>
          \E i \in DOMAIN episodes_cache' :
             \E j \in DOMAIN episodes_cache'[i].v :
                episodes_cache'[i].v[j].episodeFileId = Get(Handled.id)

\* A run that returns has handled every watched item of both phases.
ReturnsAfterAllItems ==
  pc' = "returned" =>
     (error' = None /\ Len(outcomes') = stats'.movies_watched + stats'.episodes_watched)

\* C11: a non-success answer to a real-mode delete is a failure of that item
\* and not an abort: the delete returns false and changes no cache, the
\* phase's failed counter (not its deleted counter) is incremented for the
\* item, and the rest of the phase and the next phase are still handled.
RefusedDeleteIsPerItemFailure ==
  [][RefusedDelete /\ RefusedItem /\ ReturnsAfterAllItems]_vars

\* A real run ended after the delete of its first movie was refused and an
\* episode was deleted after it.
RefusedDeleteIsPerItemFailureWitness ==
  /\ pc = "exited" /\ error = None /\ Len(outcomes) = 2
  /\ outcomes[1].kind = "movie" /\ outcomes[1].class = "Failed"
  /\ outcomes[2].kind = "episode" /\ outcomes[2].class = "Deleted"
  /\ stats.movies_failed = 1 /\ stats.movies_deleted = 0

\* ------------------------------------------- properties of the caches

\* The fetches whose answer is cached for the Mapper's lifetime.
ListEndpoints == {"radarr_movie", "sonarr_series", "radarr_tag", "sonarr_tag"}

\* The cache of endpoint ep is populated, given the three caches.
PopulatedIn(ep, mc, sc, tc) ==
  CASE ep = "radarr_movie" -> mc # None
    [] ep = "sonarr_series" -> sc # None
    [] ep = "radarr_tag" -> DictHas(tc, "radarr")
    [] ep = "sonarr_tag" -> DictHas(tc, "sonarr")

\* The requests of the step for the episode list of series sid.
EpisodeFetches(calls, sid) ==
  Cardinality({i \in DOMAIN calls : calls[i] = Call("sonarr_episode", sid)})

\* C12 as stated: over any sequence of lookups and deletions the movie
\* list, the series list and each tag list are fetched at most once, and,
\* while the episode cache has not been cleared, the episode list of each of
\* the two series is fetched at most once.
EachListFetchedAtMostOnce ==
  /\ \A ep \in ListEndpoints : requests[ep] <= 1
  /\ (requests["sonarr_delete"] = 0 /\ requests["sonarr_bulk"] = 0) =>
       requests["sonarr_episode"] <= Len(SonarrSeriesList)

\* One step of the Mapper, as to its caches.
CachedFetchStep ==
  /\ \A ep \in ListEndpoints :
       /\ PopulatedIn(ep, movies_cache, series_cache, tags_cache) =>
            /\ PopulatedIn(ep, movies_cache', series_cache', tags_cache')
            /\ requests'[ep] = requests[ep]
       /\ requests'[ep] <= requests[ep] + 1
       /\ (requests'[ep] > requests[ep] /\ last'.ok) =>
            PopulatedIn(ep, movies_cache', series_cache', tags_cache')
  /\ \A sid \in {SonarrSeriesList[i].id : i \in DOMAIN SonarrSeriesList} :
       /\ EpisodeFetches(last'.calls, sid) <= 1
       /\ DictHas(episodes_cache, sid) => EpisodeFetches(last'.calls, sid) = 0
       /\ (DictHas(episodes_cache, sid) /\ ~DictHas(episodes_cache', sid)) =>
            /\ episodes_cache' = <<>>
            /\ last'.op \in {"delete_sonarr_episode_file",
                             "bulk_delete_sonarr_episode_files"}
            /\ last'.ret = TRUE
       /\ (EpisodeFetches(last'.calls, sid) = 1 /\ ~DictHas(episodes_cache', sid)) =>
            ~last'.ok

\* C12, amended: a list is fetched only while its cache is not populated,
\* and the fetch populates the cache unless it raises; a populated movie,
\* series or tag cache stays populated (a movie deletion removes an entry,
\* never the cache, and a cache it has emptied is still populated: no
\* movie deletion causes a re-fetch), and a series' episode list leaves the
\* episode cache
\* only when a successful episode-file deletion clears it. So each list is
\* fetched successfully at most once, an episode list at most once between
\* two clears; a fetch that raised caches nothing and is issued again by the
\* next lookup.
EachCachePopulatedAtMostOnce == [][pc = "mapper" => CachedFetchStep]_vars

\* The movie list was fetched, the deletion of the only movie with a file
\* emptied the movie cache, and the lookup that followed found nothing and
\* fetched nothing.
EachCachePopulatedAtMostOnceWitness ==
  /\ pc = "mapper" /\ ops = 3
  /\ last.op \in {"find_radarr_movie_by_path", "find_radarr_movie_by_tmdb"}
  /\ last.ok /\ last.ret = None /\ last.calls = <<>>
  /\ movies_cache = Some(<<>>)
  /\ requests["radarr_movie"] = 1 /\ requests["radarr_delete"] = 1

\* The episode lists of both series were fetched, an episode file was
\* deleted, and the next lookup fetched the list of one series again, the
\* series list having been fetched once.
EpisodeListFetchedAgainAfterClear ==
  /\ pc = "mapper" /\ last.op = "find_sonarr_episode_by_path" /\ last.ok
  /\ requests["sonarr_series"] = 1 /\ requests["sonarr_episode"] = 3
  /\ requests["sonarr_delete"] = 1
  /\ Len(episodes_cache) = 1

\* ------------------------------------------- the pipeline run again

\* The most runs of the pipeline over the same upstream state.
MaxRuns == 2

\* The log entry that separates the watched items of two runs; it keeps the
\* number of requests issued before the new run.
RunMark(how) ==
  [kind |-> "run", item |-> None, class |-> how, eligible |-> FALSE, id |-> None,
   calls |-> <<>>, requests |-> requests]

\* The position in `outcomes` of the last run mark (0 in the first run), and
\* the number of runs started.
RECURSIVE LastMark(_)
LastMark(n) ==
  IF n = 0 THEN 0 ELSE IF outcomes[n].kind = "run" THEN n ELSE LastMark(n - 1)
Runs == 1 + Cardinality({i \in DOMAIN outcomes : outcomes[i].kind = "run"})

\* The script is started again (the next firing of its schedule) in the same
\* environment: main() loads the same configuration and validates it again,
\* and a new process builds a new MediaCleanup and MediaMapper, with empty
\* caches and zero counters, against the catalogs as the run before left
\* them and a watch-state source that reports what it reported.
Restart ==
  /\ pc = "exited" /\ Runs < MaxRuns
  /\ exit_code # None
  /\ Validated(config, RequiredKeys)
  /\ movies_cache' = None /\ series_cache' = None
  /\ episodes_cache' = <<>> /\ tags_cache' = <<>>
  /\ stats' = CleanupStats
  /\ primary_user_id' = None /\ radarr_keep_tag_id' = None /\ sonarr_keep_tag_id' = None
  /\ todo' = <<>>
  /\ outcomes' = Append(outcomes, RunMark("Restarted"))
  /\ last' = [NoOp EXCEPT !.op = "restart", !.ok = config # None]
  /\ UNCHANGED <<env_vars, ops, requests, summaries>>

\* A caller other than main() calls run() again on the MediaCleanup whose
\* run() has returned: the same Mapper, caches and counters.
RunAgain ==
  /\ pc = "returned" /\ Runs < MaxRuns
  /\ pc' = "run"
  /\ todo' = <<>>
  /\ outcomes' = Append(outcomes, RunMark("RunAgain"))
  /\ last' = [NoOp EXCEPT !.op = "run"]
  /\ UNCHANGED <<env_vars, mapper_vars, config, stats, primary_user_id,
                 radarr_keep_tag_id, sonarr_keep_tag_id, error, exit_code, ops,
                 requests, summaries>>

NextRerun == Next \/ Restart \/ RunAgain

SpecRerun == Init /\ [][NextRerun]_vars

\* ------------------------------------------- properties of a second run

\* The run that outcome i belongs to.
RunOf(i) == 1 + Cardinality({j \in 1..i : outcomes[j].kind = "run"})

\* The watched movies handled in run r, and those of them in the classes.
MoviesOfRun(r) ==
  {i \in DOMAIN outcomes : outcomes[i].kind = "movie" /\ RunOf(i) = r}
MoviesOfRunIn(r, classes) == {i \in MoviesOfRun(r) : outcomes[i].class \in classes}

\* Outcome i is a movie that a request of a real-mode run deleted.
ReallyDeleted(i) ==
  /\ outcomes[i].kind = "movie" /\ outcomes[i].class = "Deleted"
  /\ DeleteCalls(outcomes[i]) = 1

\* The TMDb id of the watched movie of outcome i, if it has one, is that of
\* no catalog entry but the one the movie resolved to.
MatchersAgree(i) ==
  TruthyStr(outcomes[i].item.Tmdb) =>
     \A m \in Range(RadarrMovies0) :
        (m.hasFile /\ StrOfOptInt(m.tmdbId) = Get(outcomes[i].item.Tmdb))
           => m.id = Get(outcomes[i].id)

\* A movie that a real-mode run deleted is, in the run that follows with the
\* same watched items and the catalog as the first run left it, classified
\* not found (unless a transport error ends that run at it) and no delete is
\* invoked for it; and when the first run handled every watched movie,
\* refused no movie delete and skipped no movie for the grace period, the
\* second run deletes no movie and counts no movie failed, so the failures
\* of both runs together are those of the first. This is said of every
\* deleted movie (any), or of those on which the two matchers agree.
Idempotent(any) ==
  /\ \A i, j \in DOMAIN outcomes :
       (ReallyDeleted(i) /\ RunOf(j) > RunOf(i) /\ outcomes[j].kind = "movie"
        /\ outcomes[j].item = outcomes[i].item /\ (any \/ MatchersAgree(i))) =>
          /\ outcomes[j].class \in {"NotFoundSkip", "Aborted"}
          /\ ~DeleteInvoked(outcomes[j])
  /\ (Runs = 2 /\ config # None /\ ~Get(config).dry_run
      /\ jf_movies # None /\ Cardinality(MoviesOfRun(1)) = Len(Get(jf_movies))
      /\ MoviesOfRunIn(1, {"Failed", "GraceSkip", "Aborted"}) = {}
      /\ (any \/ \A i \in MoviesOfRunIn(1, {"Deleted"}) : MatchersAgree(i))) =>
          /\ MoviesOfRunIn(2, {"Deleted", "Failed"}) = {}
          /\ Cardinality({i \in DOMAIN outcomes : outcomes[i].class = "Failed"
                                                  /\ outcomes[i].kind = "movie"})
             = Cardinality(MoviesOfRunIn(1, {"Failed"}))

\* C13: end-to-end idempotence for every movie a real-mode run deleted: the
\* next run classifies it not found, invokes no delete for it and deletes
\* nothing, and the failures of both runs are those of the first.
EveryDeletedMovieIsGoneNextRun == Idempotent(TRUE)

\* What the code does keep: idempotence for the deleted movies whose TMDb
\* id, if they carry one, is that of no other catalog entry.
SecondRunFindsDeletedMoviesGone == Idempotent(FALSE)

\* The script ran twice in real mode: the first run deleted both watched
\* movies, the second found both gone.
SecondRunFindsDeletedMoviesGoneWitness ==
  /\ pc = "exited" /\ Runs = 2 /\ error = None
  /\ outcomes[LastMark(Len(outcomes))].class = "Restarted"
  /\ Cardinality(MoviesOfRun(1)) = 2 /\ \A i \in MoviesOfRun(1) : ReallyDeleted(i)
  /\ Cardinality(MoviesOfRunIn(2, {"NotFoundSkip"})) = 2
  /\ stats.movies_deleted = 0 /\ stats.movies_skipped_not_found = 2

\* run() was called twice on one MediaCleanup: the second call found the
\* movie the first had deleted gone.
SecondCallFindsDeletedMovieGone ==
  /\ Runs = 2 /\ outcomes[LastMark(Len(outcomes))].class = "RunAgain"
  /\ \E i \in MoviesOfRun(1) : ReallyDeleted(i)
  /\ MoviesOfRunIn(2, {"NotFoundSkip"}) # {}

\* The movie the first run deleted by its path was resolved by its TMDb id
\* to another movie in the second run, which deleted that one.
SecondRunDeletesAnotherMovie ==
  /\ Runs = 2
  /\ \E i \in MoviesOfRun(1), j \in MoviesOfRun(2) :
        /\ ReallyDeleted(i) /\ ReallyDeleted(j)
        /\ outcomes[j].item = outcomes[i].item /\ outcomes[j].id # outcomes[i].id

\* ------------------------------------------- properties of the phases

\* The endpoints each phase of a run calls.
MoviePhaseEndpoints == {"jf_movies", "radarr_movie", "radarr_delete"}
EpisodePhaseEndpoints ==
  {"jf_episodes", "sonarr_series", "sonarr_episode", "sonarr_delete", "sonarr_bulk"}

\* The counters of each phase.
MovieCounters(st) ==
  <<st.movies_watched, st.movies_eligible, st.movies_skipped_tag,
    st.movies_skipped_not_found, st.movies_deleted, st.movies_failed>>
EpisodeCounters(st) ==
  <<st.episodes_watched, st.episodes_eligible, st.episodes_skipped_tag,
    st.episodes_skipped_not_found, st.episodes_deleted, st.episodes_failed>>

\* The endpoints the step just taken called.
CalledEndpoints(calls) == {calls[i].ep : i \in DOMAIN calls}

\* The step belongs to the movie phase: it calls one of its endpoints or
\* updates one of its counters.
MoviePhaseStep ==
  \/ \E ep \in MoviePhaseEndpoints : requests'[ep] > requests[ep]
  \/ MovieCounters(stats') # MovieCounters(stats)
EpisodePhaseStep ==
  \/ \E ep \in EpisodePhaseEndpoints : requests'[ep] > requests[ep]
  \/ EpisodeCounters(stats') # EpisodeCounters(stats)

\* A step of the run is of one phase, a step of the movie phase comes before
\* every call and count of the episode phase, and a step of the episode phase
\* comes after every watched movie reached its terminal class.
PhaseStep ==
  /\ MoviePhaseStep =>
        /\ ~EpisodePhaseStep
        /\ \A ep \in EpisodePhaseEndpoints : requests'[ep] = 0
        /\ EpisodeCounters(stats') = EpisodeCounters(CleanupStats)
        /\ Count("episode", TerminalClasses \cup {"Aborted"}) = 0
        /\ CalledEndpoints(last'.calls) \subseteq MoviePhaseEndpoints
  /\ EpisodePhaseStep =>
        /\ ~MoviePhaseStep
        /\ jf_movies # None
        /\ Count("movie", TerminalClasses) = Len(Get(jf_movies))
        /\ stats.movies_watched = Len(Get(jf_movies))
        /\ outcomes' # outcomes => Handled.kind = "episode"
        /\ CalledEndpoints(last'.calls) \subseteq EpisodePhaseEndpoints

\* C14: the two phases of a run are strictly sequential: every call and
\* counter update of the movie phase precedes the first call of the episode
\* phase, the watched-episodes fetch and every series/episode catalog call
\* come only after the last watched movie reached a terminal class, and the
\* requests of one step are all of the same phase.
PhasesStrictlySequential == [][pc # "mapper" => PhaseStep]_vars

\* The episode phase is under way after a movie phase that called the movie
\* catalog for its watched movie; an episode called the series catalog.
PhasesStrictlySequentialWitness ==
  /\ pc = "episodes" /\ Count("movie", TerminalClasses) = 1
  /\ requests["radarr_movie"] > 0 /\ requests["sonarr_series"] > 0
  /\ Count("episode", TerminalClasses) >= 1

\* ------------------------------------------- properties of a failed run

\* The operations of run() that call a collaborator.
RunOps == {"get_jellyfin_watched_movies", "cleanup_movie",
           "get_jellyfin_watched_episodes", "cleanup_episode"}

\* The failed counters.
FailedCounters(st) == <<st.movies_failed, st.episodes_failed>>

\* No request is made twice for the item.
NoCallTwice(calls) ==
  \A i, j \in DOMAIN calls : calls[i] = calls[j] => i = j

\* A collaborator call of run() raised: the phase is left at once with the
\* error pending, the item (if one was being handled) is classed aborted and
\* not failed, and no request was repeated.
TransportErrorStep ==
  (last'.op \in RunOps /\ ~last'.ok /\ last'.ret # Some("OverflowError")) =>
     /\ pc' = "failed" /\ error' = Some("TransportError")
     /\ FailedCounters(stats') = FailedCounters(stats)
     /\ summaries' = summaries
     /\ last'.calls # <<>> /\ NoCallTwice(last'.calls)
     /\ HandlesItem =>
          /\ Handled.class = "Aborted" /\ Handled.calls = last'.calls
          /\ stats' \in {stats, [stats EXCEPT !.movies_eligible = @ + 1],
                           [stats EXCEPT !.episodes_eligible = @ + 1]}

\* After the error nothing is handled: the summary is printed once, with the
\* statistics as the error left them, and then the error leaves run().
ErrorSurfaces ==
  /\ pc = "failed" =>
        /\ last'.op = "print_summary" /\ pc' = "raised"
        /\ summaries = <<>> /\ summaries' = <<stats>>
        /\ stats' = stats /\ requests' = requests /\ outcomes' = outcomes
        /\ error' = error /\ error # None
  /\ pc = "raised" =>
        /\ pc' = "exited" /\ exit_code' = Some(1)
        /\ summaries' = summaries /\ Len(summaries) = 1
        /\ stats' = stats /\ requests' = requests /\ outcomes' = outcomes
  /\ pc' = "raised" => pc = "failed"

\* The run was ended by an error of the movie phase: of the fetch of the
\* watched movies, or of a call made for a watched movie.
MoviePhaseFailed ==
  /\ pc \in {"failed", "raised", "exited"} /\ error = Some("TransportError")
  /\ requests["jf_movies"] > 0
  /\ \/ jf_movies = None
     \/ outcomes # <<>> /\ LastOutcome.kind = "movie" /\ LastOutcome.class = "Aborted"

\* After an error of the movie phase no episode is handled, and an aborted
\* item is the last item of its run.
NothingAfterError ==
  /\ MoviePhaseFailed' =>
        /\ EpisodeCounters(stats') = EpisodeCounters(CleanupStats)
        /\ Count("episode", TerminalClasses \cup {"Aborted"})' = 0
        /\ \A ep \in EpisodePhaseEndpoints : requests'[ep] = 0
  /\ \A i \in DOMAIN outcomes' :
        outcomes'[i].class = "Aborted" => (i = Len(outcomes') /\ error' # None)

\* C15: a transport error raised by a collaborator call during a run is not
\* caught or retried and is not counted as a failed item: it aborts the
\* item, the rest of the phase and the phases after it (after an error of
\* the movie phase no episode is handled and the episode counters stay 0),
\* the statistics collected so far are printed exactly once, and only then
\* the error leaves run().
TransportErrorAbortsRun ==
  [][pc # "mapper" => (TransportErrorStep /\ ErrorSurfaces /\ NothingAfterError)]_vars

\* The delete request for the second watched movie raised after the first
\* was deleted: the run ended with one summary, one movie deleted, none
\* failed and no episode handled.
TransportErrorAbortsRunWitness ==
  /\ pc = "exited" /\ error = Some("TransportError") /\ exit_code = Some(1)
  /\ Len(outcomes) = 2 /\ outcomes[1].class = "Deleted"
  /\ outcomes[2].class = "Aborted" /\ DeleteCalls(outcomes[2]) = 1
  /\ summaries = <<stats>> /\ stats.movies_deleted = 1 /\ stats.movies_failed = 0
  /\ requests["jf_episodes"] = 0

\* The grace check of a watched movie, and of a watched episode, raised
\* OverflowError: the item is not counted eligible, no request was made for
\* it, and the run ended with exit code 1 after one summary.
OverflowErrorEndsMoviePhase ==
  /\ pc = "exited" /\ error = Some("OverflowError") /\ exit_code = Some(1)
  /\ LastOutcome.kind = "movie" /\ LastOutcome.class = "OverflowError"
  /\ ~LastOutcome.eligible /\ LastOutcome.calls = <<>>
  /\ stats.movies_eligible = 0 /\ summaries = <<stats>>
  /\ requests["jf_episodes"] = 0
OverflowErrorEndsEpisodePhase ==
  /\ pc = "exited" /\ error = Some("OverflowError") /\ exit_code = Some(1)
  /\ LastOutcome.kind = "episode" /\ LastOutcome.class = "OverflowError"
  /\ ~LastOutcome.eligible /\ stats.episodes_eligible = 0 /\ summaries = <<stats>>

\* The fetch of the watched episodes raised after the movie phase.
EpisodeFetchRaised ==
  /\ pc = "raised" /\ requests["jf_episodes"] = 1 /\ jf_episodes = None
  /\ Count("movie", TerminalClasses) >= 1 /\ Len(summaries) = 1

\* ------------------------------------------- properties of the lookups

FindOps == {"find_radarr_movie_by_path", "find_radarr_movie_by_tmdb",
            "find_sonarr_episode_by_path"}

\* The entries of a fetched movie catalog that match the argument of a
\* movie lookup.
MovieMatches(op, arg, cache) ==
  {i \in DOMAIN cache :
     IF op = "find_radarr_movie_by_path"
     THEN cache[i].v.hasFile
          /\ normalize_path(cache[i].v.path, radarr_prefix)
               = normalize_path(arg, jellyfin_movie_prefix)
     ELSE StrOfOptInt(cache[i].v.tmdbId) = arg}

\* The series an episode lookup searches, once the series list is there.
SeriesSearched(series_id, sc) ==
  IF TruthyInt(series_id) THEN {Get(series_id)}
  ELSE IF sc = None THEN {} ELSE Range(DictKeys(Get(sc)))

\* Every catalog fetch an episode lookup needs has succeeded.
EpisodeCatalogFetched(series_id, sc, ec) ==
  /\ TruthyInt(series_id) \/ sc # None
  /\ \A sid \in SeriesSearched(series_id, sc) : DictHas(ec, sid)

\* The fetched episodes that match the path of an episode lookup.
EpisodeMatches(path, series_id, sc, ec) ==
  {e \in UNION {Range(DictGet(ec, sid)) :
                  sid \in {s \in SeriesSearched(series_id, sc) : DictHas(ec, s)}} :
     e.hasFile /\ normalize_path(e.path, sonarr_prefix)
                    = normalize_path(path, jellyfin_tv_prefix)}

\* A movie lookup of the Mapper: it raises exactly when the catalog could
\* not be fetched, and returns the absent value exactly when the fetched
\* catalog holds no match.
MovieLookupStep ==
  (pc = "mapper" /\ last'.op \in FindOps \ {"find_sonarr_episode_by_path"}) =>
     /\ last'.ok <=> movies_cache' # None
     /\ ~last'.ok => (movies_cache = None /\ requests'["radarr_movie"] > requests["radarr_movie"])
     /\ last'.ok =>
          (last'.ret = None
             <=> MovieMatches(last'.op, last'.args, Get(movies_cache')) = {})

\* An episode lookup of the Mapper, likewise.
EpisodeLookupStep ==
  (pc = "mapper" /\ last'.op = "find_sonarr_episode_by_path") =>
     /\ ~last'.ok =>
          /\ ~EpisodeCatalogFetched(last'.args.series_id, series_cache', episodes_cache')
          /\ last'.calls # <<>>
     /\ (last'.ok /\ last'.ret = None) =>
          /\ EpisodeCatalogFetched(last'.args.series_id, series_cache', episodes_cache')
          /\ EpisodeMatches(last'.args.path, last'.args.series_id,
                            series_cache', episodes_cache') = {}
     /\ (EpisodeCatalogFetched(last'.args.series_id, series_cache', episodes_cache')
         /\ EpisodeMatches(last'.args.path, last'.args.series_id,
                           series_cache', episodes_cache') = {}) =>
          (last'.ok /\ last'.ret = None)

\* The not-found counters.
NotFoundCounters(st) == <<st.movies_skipped_not_found, st.episodes_skipped_not_found>>

\* An item of a run is counted not found only in a step whose lookups all
\* returned, with the catalog they searched fetched.
NotFoundStep ==
  (pc # "mapper" /\ NotFoundCounters(stats') # NotFoundCounters(stats)) =>
     /\ HandlesItem /\ Handled.class = "NotFoundSkip" /\ last'.ok
     /\ error' = None /\ pc' = pc
     /\ Handled.kind = "movie" => movies_cache' # None
     /\ Handled.kind = "episode" =>
          EpisodeCatalogFetched(None, series_cache', episodes_cache')

\* C16: "no match" and a transport failure are never conflated: the three
\* lookups return the absent value, and do not raise, when the fetched
\* catalog holds no matching entry, they never return the absent value
\* because a fetch failed, and an item is counted not found only when its
\* lookups all completed without a transport error.
NoMatchIsNotTransportFailure ==
  [][MovieLookupStep /\ EpisodeLookupStep /\ NotFoundStep]_vars

\* A movie lookup raised on the failed fetch, and the same lookup called
\* again fetched the catalog and returned the absent value.
NoMatchIsNotTransportFailureWitness ==
  /\ pc = "mapper" /\ last.op = "find_radarr_movie_by_path"
  /\ last.ok /\ last.ret = None /\ requests["radarr_movie"] = 2
  /\ movies_cache # None

\* An episode lookup raised on the fetch of the second series' episodes.
EpisodeLookupRaised ==
  /\ pc = "mapper" /\ last.op = "find_sonarr_episode_by_path" /\ ~last.ok
  /\ Len(last.calls) = 3 /\ series_cache # None /\ Len(episodes_cache) = 1

\* A watched episode of a run was counted not found.
EpisodeCountedNotFound ==
  /\ pc = "episodes" /\ stats.episodes_skipped_not_found = 1
  /\ outcomes # <<>> /\ LastOutcome.class = "NotFoundSkip"

\* ------------------------------------------- properties of the exit code

\* One of the three required credentials is missing from the configuration.
MissingCredential ==
  \/ Get(config).jellyfin_api_key = <<>>
  \/ Get(config).radarr_api_key = <<>>
  \/ Get(config).sonarr_api_key = <<>>

\* run() has returned and the process has ended.
RunCompleted == pc = "exited" /\ config # None /\ ~MissingCredential /\ error = None

\* A deletion of the run was counted failed.
DeletionFailed == Count("movie", {"Failed"}) + Count("episode", {"Failed"}) > 0

\* C17: the process exits with 1 when one of the three credentials is
\* missing, before any collaborator is called; when the run completes it
\* exits with 1 iff the mode is not dry-run and at least one movie or episode
\* deletion was counted failed, and with 0 otherwise; a completed dry run
\* exits with 0.
ExitContract ==
  /\ pc # "exited" <=> exit_code = None
  /\ (config # None /\ MissingCredential) =>
        /\ pc = "exited" /\ exit_code = Some(1)
        /\ \A ep \in Endpoints : requests[ep] = 0
        /\ primary_user_id = None /\ summaries = <<>> /\ last.op = "main"
  /\ RunCompleted =>
        /\ Len(summaries) = 1
        /\ DeletionFailed <=> (stats.movies_failed > 0 \/ stats.episodes_failed > 0)
        /\ exit_code = Some(IF ~Get(config).dry_run /\ DeletionFailed THEN 1 ELSE 0)
        /\ Get(config).dry_run => exit_code = Some(0)

\* A real run completed with one deletion failed and one done, and the
\* process exited with 1.
ExitContractWitness ==
  /\ RunCompleted /\ ~Get(config).dry_run /\ exit_code = Some(1)
  /\ Count("movie", {"Failed"}) + Count("episode", {"Failed"}) = 1
  /\ Count("movie", {"Deleted"}) + Count("episode", {"Deleted"}) = 1

\* The process exited for a missing credential.
ExitedForMissingCredential ==
  pc = "exited" /\ config # None /\ Get(config).sonarr_api_key = <<>>

\* A real run completed with every deletion done, and a dry run completed.
RealRunExitedWithSuccess ==
  /\ RunCompleted /\ ~Get(config).dry_run /\ exit_code = Some(0)
  /\ Count("movie", {"Deleted"}) >= 1
DryRunExitedWithSuccess ==
  /\ RunCompleted /\ Get(config).dry_run /\ exit_code = Some(0)
  /\ Count("movie", {"Deleted"}) >= 1

\* ------------------------------------------- properties of construction

\* The configured primary user is among the users of the watch-state source,
\* names compared without regard to case.
PrimaryUserKnown ==
  \E i \in DOMAIN JellyfinUsers :
     StrLower(JellyfinUsers[i].Name) = StrLower(Get(config).primary_user_name)

\* C18: when the configured primary user is not among the users the
\* watch-state source returns (names compared case-insensitively), the
\* construction of MediaCleanup fails with a configuration error before any
\* phase runs: the users are fetched and nothing else, no watched item, no
\* catalog, no tag list, and no delete is ever sent.
UnknownPrimaryUserFailsConstruction ==
  /\ (config # None /\ ~MissingCredential /\ ~PrimaryUserKnown) =>
        /\ pc \in {"construct", "exited"}
        /\ \A ep \in Endpoints \ {"jf_users"} : requests[ep] = 0
        /\ outcomes = <<>> /\ summaries = <<>> /\ stats = CleanupStats
        /\ primary_user_id = None
        /\ pc = "exited" =>
              /\ last.op = "construct" /\ ~last.ok
              /\ last.calls = <<Call("jf_users", 0)>> /\ requests["jf_users"] = 1
              /\ error \in {Some("ValueError"), Some("TransportError")}
              /\ exit_code = Some(1)
  /\ (error = Some("ValueError") /\ config # None) => ~PrimaryUserKnown
  /\ (config # None /\ PrimaryUserKnown /\ pc \notin {"main", "construct"}
      /\ error # Some("TransportError") /\ ~MissingCredential) =>
        primary_user_id = Some("user-admin")

\* The construction failed for the unknown primary user "bob".
UnknownPrimaryUserFailsConstructionWitness ==
  /\ pc = "exited" /\ error = Some("ValueError") /\ config # None
  /\ Get(config).primary_user_name = <<"b","o","b">>
  /\ requests["jf_users"] = 1

\* The primary user "admin" was found as the source's "Admin".
PrimaryUserFoundIgnoringCase ==
  /\ pc = "run" /\ Get(config).primary_user_name = <<"a","d","m","i","n">>
  /\ primary_user_id = Some("user-admin")

\* ------------------------------------------- properties of the resolution

\* The movie catalog the lookups of the step search: the cache, or what the
\* step's fetch fills it with.
CatalogSeen ==
  IF movies_cache # None THEN Get(movies_cache) ELSE DictById(WithFile(radarr_movies))

\* What each matcher finds for a watched movie in that catalog.
ByPath(movie) ==
  FirstMovieByPath(CatalogSeen, 1, normalize_path(PathOf(movie), jellyfin_movie_prefix))
ByTmdb(movie) == FirstMovieByTmdb(CatalogSeen, 1, Get(movie.Tmdb))

\* A matcher's result is accepted: when it is not None, or (truthy) when
\* Python reads it as true.
Accepted(found, truthy) == IF truthy THEN TruthyInt(found) ELSE found # None

\* The id the ordered chain resolves a watched movie to.
ChainResult(movie, truthy) ==
  IF Accepted(ByPath(movie), truthy) THEN ByPath(movie)
  ELSE IF TruthyStr(movie.Tmdb) THEN ByTmdb(movie)
  ELSE None

\* A watched movie past the grace period was resolved, its lookups having
\* returned.
ResolvesMovie ==
  /\ pc = "movies" /\ HandlesItem /\ Handled.kind = "movie"
  /\ Handled.eligible /\ last'.ok

\* The step resolves the movie as the chain does.
ChainStep(truthy) ==
  ResolvesMovie =>
     /\ Handled.class = "NotFoundSkip"
           <=> ~Accepted(ChainResult(Handled.item, truthy), truthy)
     /\ Handled.class # "NotFoundSkip" => Handled.id = ChainResult(Handled.item, truthy)

\* C19: the movie resolution accepts the first non-absent result of the
\* chain: the path matcher's result whenever it is not None, whatever id it
\* is and whatever the TMDb matcher would find; the TMDb matcher's only when
\* the path matcher found nothing and the item carries a TMDb id; and the
\* item is not found iff both found nothing.
FirstNonAbsentMatchIsUsed == [][ChainStep(FALSE)]_vars

\* What cleanup_movies does: a result is accepted when it is true, so that
\* the id 0 reads as no match.
FirstTruthyMatchIsUsed == [][ChainStep(TRUE)]_vars

\* The watched movie whose file the catalog holds under id 0 was counted
\* not found.
MovieOfIdZeroNotFound ==
  /\ outcomes # <<>> /\ LastOutcome.kind = "movie" /\ LastOutcome.class = "NotFoundSkip"
  /\ PathOf(LastOutcome.item) = jellyfin_movie_prefix_default \o Str1("Z")
  /\ LastOutcome.item.Tmdb = None
  /\ \E i \in DOMAIN Get(movies_cache) : Get(movies_cache)[i].k = 0

\* The watched movie whose file the catalog holds under id 0 was resolved
\* by its TMDb id to another movie, which was deleted.
MovieOfIdZeroTakenForAnother ==
  /\ outcomes # <<>> /\ LastOutcome.kind = "movie" /\ LastOutcome.class = "Deleted"
  /\ PathOf(LastOutcome.item) = jellyfin_movie_prefix_default \o Str1("Z")
  /\ LastOutcome.id = Some(2) /\ ~Get(config).dry_run

\* The path match was used although the TMDb id is another movie's.
PathMatchUsedBeforeTmdb ==
  /\ outcomes # <<>> /\ LastOutcome.kind = "movie" /\ LastOutcome.class = "Deleted"
  /\ PathOf(LastOutcome.item) = jellyfin_movie_prefix_default \o Str1("A")
  /\ LastOutcome.item.Tmdb = Some(<<"1","2">>) /\ LastOutcome.id = Some(1)

\* ------------------------------------------- properties of the path match

\* The cached entries whose normalized path equals the argument's when
\* letter case is disregarded.
MovieMatchesIgnoringCase(arg, cache) ==
  {i \in DOMAIN cache :
     cache[i].v.hasFile
     /\ StrLower(normalize_path(cache[i].v.path, radarr_prefix))
          = StrLower(normalize_path(arg, jellyfin_movie_prefix))}

\* What find_radarr_movie_by_path returned against the cached entries that
\* match its argument: an id iff there is one, and then the id of one.
PathMatchResult(ret, cache, matches) ==
  /\ ret # None <=> matches # {}
  /\ ret # None => \E i \in matches : cache[i].k = Get(ret)

\* find_radarr_movie_by_path returned: an id iff a cached entry with a file
\* has the argument's normalized path, and then the id of such an entry.
FindMovieByPathStep ==
  (pc = "mapper" /\ last'.op = "find_radarr_movie_by_path" /\ last'.ok) =>
     /\ movies_cache' # None
     /\ PathMatchResult(last'.ret, Get(movies_cache'),
                        MovieMatches(last'.op, last'.args, Get(movies_cache')))

\* C20: find_radarr_movie_by_path(path) returns a catalog id iff some cached
\* movie entry with a file has a file path whose normalized form (against
\* the catalog's prefix) is exactly, case-sensitively, the normalized form of
\* path (against the watch-state movie prefix), the id returned is that of
\* such an entry, and None is returned otherwise; paths that differ only in
\* letter case do not match, and /media/movies/The Matrix (1999)/... matches
\* /movies/The Matrix (1999)/...
PathMatchIsExact == [][FindMovieByPathStep]_vars

\* The lookup of /media/movies/The Matrix (1999)/m returned the id of the
\* entry at /movies/The Matrix (1999)/m.
PathMatchIsExactWitness ==
  /\ pc = "mapper" /\ last.op = "find_radarr_movie_by_path"
  /\ last.args = jellyfin_movie_prefix_default \o TheMatrix
  /\ last.ok /\ last.ret = Some(4)

\* The lookup of a path that differs from an entry's only in letter case
\* returned None.
CaseDifferingPathNotMatched ==
  /\ pc = "mapper" /\ last.op = "find_radarr_movie_by_path"
  /\ last.ok /\ last.ret = None
  /\ MovieMatchesIgnoringCase(last.args, Get(movies_cache)) # {}

\* The lookup returned the id 0.
PathMatchReturnsIdZero ==
  /\ pc = "mapper" /\ last.op = "find_radarr_movie_by_path"
  /\ last.ok /\ last.ret = Some(0)

\* ------------------------------------------- properties of the episode lookup

\* A series id was supplied to the lookup: it is not None, or (truthy)
\* Python reads it as true.
Supplied(series_id, truthy) ==
  IF truthy THEN TruthyInt(series_id) ELSE series_id # None

\* The series whose episode lists the lookup scans.
Scanned(series_id, truthy, sc) ==
  IF Supplied(series_id, truthy) THEN {Get(series_id)}
  ELSE IF sc = None THEN {} ELSE Range(DictKeys(Get(sc)))

\* The cached episodes of the scanned series that have a file at the
\* normalized path of the lookup.
ScannedMatches(path, series, ec) ==
  {e \in UNION {Range(DictGet(ec, sid)) : sid \in {s \in series : DictHas(ec, s)}} :
     e.hasFile /\ normalize_path(e.path, sonarr_prefix)
                    = normalize_path(path, jellyfin_tv_prefix)}

\* What the lookup returned against those episodes: the episode-file id of
\* one of them, or None when it scanned every list and none matches.
EpisodeLookupResult(ret, series, matches, ec) ==
  /\ ret # None => \E e \in matches : ret = Some(e.episodeFileId)
  /\ ret = None => (matches = {} /\ \A sid \in series : DictHas(ec, sid))

\* The requests of a lookup with a series id supplied: that series' episode
\* list and nothing else.
OnlySuppliedSeriesFetched(series_id, calls) ==
  \A i \in DOMAIN calls : calls[i] = Call("sonarr_episode", Get(series_id))

\* One call of find_sonarr_episode_by_path.
EpisodeScanStep(truthy) ==
  (pc = "mapper" /\ last'.op = "find_sonarr_episode_by_path") =>
     /\ Supplied(last'.args.series_id, truthy) =>
           /\ OnlySuppliedSeriesFetched(last'.args.series_id, last'.calls)
           /\ series_cache' = series_cache
           /\ requests'["sonarr_series"] = requests["sonarr_series"]
     /\ (~Supplied(last'.args.series_id, truthy) /\ last'.ok) => series_cache' # None
     /\ last'.ok =>
           EpisodeLookupResult(
             last'.ret, Scanned(last'.args.series_id, truthy, series_cache'),
             ScannedMatches(last'.args.path,
                            Scanned(last'.args.series_id, truthy, series_cache'),
                            episodes_cache'),
             episodes_cache')

\* C21: find_sonarr_episode_by_path scans only the supplied series' episode
\* list whenever a series id is supplied, whatever its value, fetching
\* neither the series list nor another series' list, and scans every series'
\* list when none is supplied; episodes are matched by normalized path only
\* and the value returned is the matching entry's episode-file id.
SuppliedSeriesAloneIsScanned == [][EpisodeScanStep(FALSE)]_vars

\* What the lookup does: the series id is tested with `if series_id`, so
\* that the id 0 reads as none supplied.
TruthySeriesAloneIsScanned == [][EpisodeScanStep(TRUE)]_vars

\* The lookup was given the series id 0 and fetched the series list and the
\* episode lists of other series.
SeriesZeroScansEverySeries ==
  /\ pc = "mapper" /\ last.op = "find_sonarr_episode_by_path"
  /\ last.args.series_id = Some(0)
  /\ \E i \in DOMAIN last.calls : last.calls[i] = Call("sonarr_series", 0)
  /\ \E i \in DOMAIN last.calls : last.calls[i] = Call("sonarr_episode", 1)

\* The lookup was given the series id 2 and fetched that series' list alone,
\* returning the episode-file id 8 of its episode 201.
SeriesTwoScannedAlone ==
  /\ pc = "mapper" /\ last.op = "find_sonarr_episode_by_path"
  /\ last.args.series_id = Some(2) /\ last.ret = Some(8)
  /\ last.calls = <<Call("sonarr_episode", 2)>> /\ series_cache = None

\* The lookup without a series id scanned both series and found nothing.
EverySeriesScanned ==
  /\ pc = "mapper" /\ last.op = "find_sonarr_episode_by_path"
  /\ last.args.series_id = None /\ last.ok /\ last.ret = None
  /\ Len(last.calls) = 3

\* ------------------------------------------- _normalize_path used directly

\* The most pieces a path handed to _normalize_path is made of.
MaxPieces == 3

\* The pieces of the paths: a separator, a letter, the prefix, and the
\* escapes of "A", "/" and "%".
PathPieces ==
  { <<"/">>, <<"a">>, <<"/","m","/">>, <<"%","4","1">>, <<"%","2","F">>,
    <<"%","2","5">>, <<"4","1">>, <<"%">>, <<"%","C","3">>, <<"%","A","9">>,
    <<"%","0","A">> }

RECURSIVE PiecesUpTo(_)
PiecesUpTo(n) ==
  IF n = 0 THEN {<<>>}
  ELSE PiecesUpTo(n - 1)
       \cup {p \o piece : p \in PiecesUpTo(n - 1), piece \in PathPieces}

\* The paths and the prefixes a caller passes.
NormPaths == PiecesUpTo(MaxPieces)
NormPrefixes == { <<>>, <<"/","m","/">>, <<"/","a">> }

\* A caller is about to use _normalize_path.
InitNormalize == StartsAt("normalize", None)

\* _normalize_path(path, prefix_to_remove) has returned.
\* (first: the arguments of the call whose result is normalized again.)
Normalized(path, prefix_to_remove, first) ==
  /\ last' = [op |-> "_normalize_path",
              args |-> [path |-> path, prefix_to_remove |-> prefix_to_remove],
              ok |-> TRUE, ret |-> normalize_path(path, prefix_to_remove),
              calls |-> <<>>, first |-> first]
  /\ UNCHANGED <<env_vars, mapper_vars, config, stats, primary_user_id,
                 radarr_keep_tag_id, sonarr_keep_tag_id, todo, error, exit_code,
                 ops, requests, outcomes, summaries>>

CallNormalize(path, prefix_to_remove) ==
  /\ pc = "normalize" /\ pc' = "normalized"
  /\ Normalized(path, prefix_to_remove, None)

\* The result of the call is normalized again, with an empty prefix.
CallNormalizeAgain ==
  /\ pc = "normalized" /\ pc' = "normalized again"
  /\ Normalized(last.ret, <<>>, Some(last.args))

NextNormalize ==
  \/ \E path \in NormPaths, prefix \in NormPrefixes : CallNormalize(path, prefix)
  \/ CallNormalizeAgain

SpecNormalize == InitNormalize /\ [][NextNormalize]_vars

\* The path without its mount prefix: the prefix is taken off the front of
\* a path that begins with it, and any other path is left as it is.
StripPrefix(path, prefix) ==
  IF prefix # <<>> /\ HasAt(path, prefix, 1)
  THEN SubSeq(path, Len(prefix) + 1, Len(path))
  ELSE path

\* The reference: strip the mount prefix, percent-decode, strip separators.
ReferenceNormalize(path, prefix) == StripSlash(unquote(StripPrefix(path, prefix)))

\* C22: _normalize_path(path, prefix) is the reference for every path and
\* prefix: the mount prefix is stripped (a path that does not carry it is
\* left unchanged by this step, and nothing but the mount prefix is
\* removed), the rest is percent-decoded, and leading and trailing
\* separators are stripped.
NormalizeIsReference ==
  last.op = "_normalize_path" =>
     last.ret = ReferenceNormalize(last.args.path, last.args.prefix_to_remove)

\* What _normalize_path does: every occurrence of the prefix is removed,
\* wherever it is in the path.
NormalizeRemovesEveryOccurrence ==
  last.op = "_normalize_path" =>
     /\ last.ret = StripSlash(unquote(RemoveAll(last.args.path, last.args.prefix_to_remove)))
     /\ RemoveAll(StripPrefix(last.args.path, last.args.prefix_to_remove),
                  last.args.prefix_to_remove)
          = StripPrefix(last.args.path, last.args.prefix_to_remove)
        => last.ret = ReferenceNormalize(last.args.path, last.args.prefix_to_remove)

\* A path that carries the prefix at its front and again further on lost
\* both occurrences.
PrefixRemovedInsideThePath ==
  /\ last.op = "_normalize_path"
  /\ last.args.path = <<"/","m","/","a","/","m","/">>
  /\ last.args.prefix_to_remove = <<"/","m","/">>
  /\ last.ret = <<"a">>

\* A path that does not begin with the prefix was changed by the first step.
PathWithoutPrefixChanged ==
  /\ last.op = "_normalize_path"
  /\ last.args.path = <<"a","/","m","/","a">>
  /\ last.args.prefix_to_remove = <<"/","m","/">>
  /\ last.ret = <<"a","a">>

\* The string holds a percent-escape: a % followed by two hex digits.
HasEscape(s) ==
  \E i \in 1..Len(s) :
     s[i] = "%" /\ i + 2 <= Len(s) /\ IsHex(s[i + 1]) /\ IsHex(s[i + 2])

\* C23 as stated: _normalize_path is idempotent: for every path p and prefix
\* x, normalizing the result again with an empty prefix gives the result,
\* also when the decoded form itself holds percent-escapes or begins or
\* ends with a separator.
NormalizeIsIdempotent == [][pc = "normalized" => last'.ret = last.ret]_vars

\* C23, amended: normalizing the result again with an empty prefix gives
\* the result exactly when the result holds no percent-escape (also when
\* the decoded form begins or ends with a separator); a result that holds
\* one is decoded once more.
NormalizeIsIdempotentWithoutEscapes ==
  [][pc = "normalized" => (last'.ret = last.ret <=> ~HasEscape(last.ret))]_vars

\* The path %2Fa%2F, whose decoded form begins and ends with a separator,
\* was normalized to a, and again to a.
NormalizeIsIdempotentWithoutEscapesWitness ==
  /\ pc = "normalized again" /\ last.first # None
  /\ Get(last.first).path = <<"%","2","F","a","%","2","F">>
  /\ last.args.path = <<"a">> /\ last.ret = <<"a">>

\* The path %2541 was normalized to %41, and that again to A.
EscapeDecodedTwice ==
  /\ pc = "normalized again" /\ last.first # None
  /\ Get(last.first).path = <<"%","2","5","4","1">>
  /\ last.args.path = <<"%","4","1">> /\ last.ret = <<"A">>

\* ------------------------------------------- properties of the keep tag

\* MediaCleanup.__init__ has returned.
ConstructedCleanup ==
  \/ pc \in {"run", "movies", "episodes", "failed", "returned", "raised"}
  \/ pc = "exited" /\ summaries # <<>>

\* The ids of the tags of a service whose label is the configured label,
\* letter case disregarded.
KeepTagIds(tags) ==
  {tags[i].id : i \in {j \in DOMAIN tags :
                          StrLower(tags[j].label) = StrLower(Get(config).keep_tag_label)}}

\* The id resolved for a service is that of such a tag when there is one,
\* and None when there is none.
ResolvedFrom(keep_tag_id, tags) ==
  IF KeepTagIds(tags) = {} THEN keep_tag_id = None
  ELSE keep_tag_id # None /\ Get(keep_tag_id) \in KeepTagIds(tags)

\* C24: the keep-tag resolution is a case-insensitive exact match of the
\* configured label against the service's tag labels: it gives the id of a
\* tag with that label whenever there is one, whatever the id, and None,
\* without raising, when there is none.
KeepTagResolvedByLabel ==
  ConstructedCleanup =>
     /\ ResolvedFrom(radarr_keep_tag_id, RadarrTagList)
     /\ ResolvedFrom(sonarr_keep_tag_id, SonarrTagList)

\* With the label "keep" the movie catalog's tag "Keep" (id 5) and the
\* series catalog's tag "keep" (id 0) were resolved.
KeepTagResolvedByLabelWitness ==
  /\ pc = "run" /\ Get(config).keep_tag_label = <<"k","e","e","p">>
  /\ radarr_keep_tag_id = Some(5) /\ sonarr_keep_tag_id = Some(0)

\* With the label "hold", which no tag has, both ids are None and the
\* construction succeeded.
KeepTagAbsent ==
  /\ pc = "run" /\ Get(config).keep_tag_label = <<"h","o","l","d">>
  /\ radarr_keep_tag_id = None /\ sonarr_keep_tag_id = None /\ error = None

\* The keep-tag ids of the orchestrator, and the tag-list requests so far.
KeepTagIdsResolved == <<radarr_keep_tag_id, sonarr_keep_tag_id>>
TagRequests(r) == <<r["radarr_tag"], r["sonarr_tag"]>>

\* The step fetches watched items or handles one.
TouchesWatchedItems ==
  \/ requests'["jf_movies"] > requests["jf_movies"]
  \/ requests'["jf_episodes"] > requests["jf_episodes"]
  \/ HandlesItem

\* __init__ resolves both ids, each with one fetch of its tag list; the
\* steps after it, of any phase and of any later call of run(), fetch no
\* tag list and leave the ids as they are; and watched items are fetched
\* and handled only with both tag lists fetched.
KeepTagStep ==
  /\ pc = "construct" =>
        /\ requests'["radarr_tag"] \in {requests["radarr_tag"], requests["radarr_tag"] + 1}
        /\ requests'["sonarr_tag"] \in {requests["sonarr_tag"], requests["sonarr_tag"] + 1}
        /\ pc' = "run" =>
              /\ TagRequests(requests')
                   = <<requests["radarr_tag"] + 1, requests["sonarr_tag"] + 1>>
              /\ last'.calls = <<Call("jf_users", 0), Call("radarr_tag", 0),
                                 Call("sonarr_tag", 0)>>
              /\ requests'["jf_movies"] = requests["jf_movies"]
              /\ requests'["jf_episodes"] = requests["jf_episodes"]
  /\ (pc \in {"run", "movies", "episodes", "failed", "returned", "raised"}
      /\ pc' # "construct") =>
        /\ KeepTagIdsResolved' = KeepTagIdsResolved
        /\ TagRequests(requests') = TagRequests(requests)
        /\ tags_cache' = tags_cache
  /\ TouchesWatchedItems =>
        /\ DictHas(tags_cache, "radarr") /\ DictHas(tags_cache, "sonarr")
        /\ requests["radarr_tag"] >= 1 /\ requests["sonarr_tag"] >= 1

\* C25: each catalog service's keep-tag id is resolved exactly once per
\* orchestrator, before any watched item is fetched or handled: the
\* tag-list fetches of both services precede the first watched-item fetch,
\* and the ids do not change during or between the phases.
KeepTagsResolvedOnceBeforeItems == [][pc # "mapper" => KeepTagStep]_vars

\* run() was called twice on one orchestrator, movies and episodes handled,
\* with each tag list fetched once.
KeepTagsResolvedOnceBeforeItemsWitness ==
  /\ Runs = 2 /\ outcomes[LastMark(Len(outcomes))].class = "RunAgain"
  /\ pc = "episodes" /\ requests["jf_movies"] = 2 /\ requests["jf_episodes"] = 2
  /\ requests["radarr_tag"] = 1 /\ requests["sonarr_tag"] = 1
  /\ radarr_keep_tag_id = Some(5) /\ sonarr_keep_tag_id = Some(0)

\* ------------------------------------------- properties of the cache content

\* The ids a lookup can have found: those of the catalog entries that had a
\* file.
MovieIdsWithFile ==
  {RadarrMovies0[i].id : i \in {j \in DOMAIN RadarrMovies0 : RadarrMovies0[j].hasFile}}
EpisodeFileIdsWithFile ==
  UNION {{SonarrEpisodes0[sid][i].episodeFileId :
            i \in {j \in DOMAIN SonarrEpisodes0[sid] : SonarrEpisodes0[sid][j].hasFile}} :
         sid \in DOMAIN SonarrEpisodes0}

\* The movie cache, when populated, holds catalog movies that had a file
\* when fetched, each under its own id.
MovieCacheFiltered ==
  movies_cache # None =>
     \A i \in DOMAIN Get(movies_cache) :
        /\ Get(movies_cache)[i].v.hasFile
        /\ Get(movies_cache)[i].k = Get(movies_cache)[i].v.id
        /\ Get(movies_cache)[i].v \in Range(RadarrMovies0)
        /\ \A j \in DOMAIN Get(movies_cache) :
              Get(movies_cache)[j].k = Get(movies_cache)[i].k => j = i

\* Every cached episode list holds episodes of its series that had a file.
EpisodeCacheFiltered ==
  \A i \in DOMAIN episodes_cache :
     \A e \in Range(episodes_cache[i].v) :
        /\ e.hasFile
        /\ episodes_cache[i].k \in DOMAIN SonarrEpisodes0
        /\ e \in Range(SonarrEpisodes0[episodes_cache[i].k])

\* A lookup gave the id of an entry that had a file, or None.
FoundHasFile ==
  /\ (pc = "mapper" /\ last.op \in FindOps /\ last.ok) =>
        (last.ret # None =>
           Get(last.ret) \in (IF last.op = "find_sonarr_episode_by_path"
                              THEN EpisodeFileIdsWithFile ELSE MovieIdsWithFile))
  /\ \A i \in DOMAIN outcomes :
        (outcomes[i].kind \in {"movie", "episode"} /\ outcomes[i].id # None) =>
           Get(outcomes[i].id) \in
              (IF outcomes[i].kind = "movie" THEN MovieIdsWithFile
               ELSE EpisodeFileIdsWithFile)

\* C26: in every reachable state the movie cache, when populated, holds only
\* catalog movies that had a file at fetch time, keyed by their own id, and
\* every cached episode list holds only episodes that had a file; so no
\* lookup returns the id of an entry without a file.
CachesHoldOnlyEntriesWithFile ==
  MovieCacheFiltered /\ EpisodeCacheFiltered /\ FoundHasFile

\* The lookup by the TMDb id of the catalog movie without a file found
\* nothing in the populated cache, which holds the four movies with a file;
\* the episode list of series 1 is cached without its episode without a file.
CachesHoldOnlyEntriesWithFileWitness ==
  /\ pc = "mapper" /\ last.op = "find_radarr_movie_by_tmdb"
  /\ last.args = <<"1","3">> /\ last.ok /\ last.ret = None
  /\ movies_cache # None /\ Len(Get(movies_cache)) = 4
  /\ DictHas(episodes_cache, 1) /\ Len(DictGet(episodes_cache, 1)) = 1

\* ------------------------------------------- the defaults

\* CleanupConfig(): the dataclass's defaults.
CleanupConfigDefaults ==
  [grace_period_days |-> 5, dry_run |-> TRUE,
   keep_tag_label |-> <<"k","e","e","p">>,
   primary_user_name |-> <<"a","d","m","i","n">>,
   jellyfin_url |-> <<>>, jellyfin_api_key |-> <<>>,
   radarr_url |-> <<>>, radarr_api_key |-> <<>>,
   sonarr_url |-> <<>>, sonarr_api_key |-> <<>>,
   jellyfin_movie_prefix |-> jellyfin_movie_prefix_default,
   jellyfin_tv_prefix |-> jellyfin_tv_prefix_default,
   radarr_prefix |-> radarr_prefix_default,
   sonarr_prefix |-> sonarr_prefix_default]

\* A configuration is built, with the defaults or from the environment
\* (cfg is None when from_env raised: the caller is left without one).
Configured(how, env, cfg) ==
  /\ pc = "mapper" /\ config = None
  /\ config' = cfg
  /\ last' = [op |-> how, args |-> env, ok |-> cfg # None, ret |-> cfg, calls |-> <<>>]
  /\ UNCHANGED <<env_vars, mapper_vars, stats, primary_user_id, radarr_keep_tag_id,
                 sonarr_keep_tag_id, pc, todo, error, exit_code, ops, requests,
                 outcomes, summaries>>

BuildDefaultConfig == Configured("CleanupConfig", None, Some(CleanupConfigDefaults))
LoadConfig(env) == Configured("from_env", Some(env), from_env(env))

\* The delete operations called without a dry_run argument.
CallDeleteMovieByDefault(movie_id, status, down) ==
  /\ Calling
  /\ Called("delete_radarr_movie", [id |-> movie_id],
            delete_radarr_movie(World, movie_id, dry_run_default, status, down))

CallDeleteEpisodeFileByDefault(episode_file_id, status, down) ==
  /\ Calling
  /\ Called("delete_sonarr_episode_file", [id |-> episode_file_id],
            delete_sonarr_episode_file(World, episode_file_id, dry_run_default,
                                       status, down))

CallBulkDeleteEpisodeFilesByDefault(episode_file_ids, status, down) ==
  /\ Calling
  /\ Called("bulk_delete_sonarr_episode_files", [id |-> episode_file_ids],
            bulk_delete_sonarr_episode_files(World, episode_file_ids, dry_run_default,
                                             status, down))

\* A caller that builds a configuration and uses the Mapper's lookups and,
\* with their default arguments, its deletes.
NextDefaults ==
  \/ BuildDefaultConfig
  \/ \E env \in Envs : LoadConfig(env)
  \/ \E p \in MoviePaths, down \in Downs({"radarr_movie"}) : CallFindMovieByPath(p, down)
  \/ \E p \in EpisodePaths, down \in Downs({"sonarr_series", "sonarr_episode"}) :
        CallFindEpisodeByPath(p, None, down)
  \/ \E id \in MovieIds, down \in Downs({"radarr_delete"}) :
        \E status \in StatusesOf(dry_run_default, "radarr_delete", down) :
           CallDeleteMovieByDefault(id, status, down)
  \/ \E id \in FileIds, down \in Downs({"sonarr_delete"}) :
        \E status \in StatusesOf(dry_run_default, "sonarr_delete", down) :
           CallDeleteEpisodeFileByDefault(id, status, down)
  \/ \E ids \in ListsUpTo(FileIds, MaxBulk), down \in Downs({"sonarr_bulk"}) :
        \E status \in StatusesOf(dry_run_default, "sonarr_bulk", down) :
           CallBulkDeleteEpisodeFilesByDefault(ids, status, down)

SpecDefaults == InitMapper /\ [][NextDefaults]_vars

\* A delete called with the default: success, no request, nothing changed.
DefaultDeleteStep ==
  last'.op \in DeleteOps =>
     /\ last'.ok /\ last'.ret = TRUE /\ last'.calls = <<>>
     /\ requests' = requests
     /\ \A ep \in MutatingEndpoints : requests'[ep] = 0
     /\ mapper_vars' = mapper_vars
     /\ radarr_movies' = radarr_movies /\ sonarr_episodes' = sonarr_episodes

\* A configuration built with the defaults, or loaded (from_env returned)
\* with DRY_RUN unset, is in dry-run mode.
DefaultConfigStep ==
  /\ last'.op = "CleanupConfig" => Get(config').dry_run
  /\ (last'.op = "from_env" /\ last'.ok /\ Get(last'.args).DRY_RUN = Unset)
        => Get(config').dry_run

\* C27: dry-run is the default mode: a configuration built with the
\* defaults, or loaded from an environment in which DRY_RUN is unset, has
\* dry_run = true, and a delete operation of the Mapper called without a
\* dry_run argument sends no mutating request.
DryRunIsTheDefault == [][DefaultConfigStep /\ DefaultDeleteStep]_vars

\* With the movie cache populated, the movie found in it was deleted by
\* default: it is still cached and in the catalog, and no delete was sent.
DryRunIsTheDefaultWitness ==
  /\ last.op = "delete_radarr_movie" /\ last.args.id = 1 /\ last.ret = TRUE
  /\ movies_cache # None /\ DictHas(Get(movies_cache), 1)
  /\ requests["radarr_delete"] = 0 /\ radarr_movies = RadarrMovies0

\* The configuration was loaded with DRY_RUN unset, and with DRY_RUN=False.
LoadedWithDryRunUnset ==
  /\ last.op = "from_env" /\ last.ok /\ Get(last.args).DRY_RUN = Unset
  /\ Get(config).dry_run
LoadedInRealMode ==
  /\ last.op = "from_env" /\ last.ok /\ Get(last.args).DRY_RUN # Unset
  /\ ~Get(config).dry_run

\* ------------------------------------------- the counters of a second call

\* The run in progress was started by calling run() again on the same
\* MediaCleanup.
CalledAgain ==
  /\ Runs = 2 /\ outcomes[LastMark(Len(outcomes))].class = "RunAgain"

\* The watched items of a kind that run r counted eligible.
EligibleOfRun(kind, r) ==
  {i \in DOMAIN outcomes :
     outcomes[i].kind = kind /\ outcomes[i].eligible /\ RunOf(i) = r}

\* The eligible counters count the items of the given runs.
EligibleCounts(runs) ==
  /\ stats.movies_eligible =
        Cardinality(UNION {EligibleOfRun("movie", r) : r \in runs})
  /\ stats.episodes_eligible =
        Cardinality(UNION {EligibleOfRun("episode", r) : r \in runs})

\* C28: run() called a second time on the same MediaCleanup does not count
\* twice: when the second call has returned, the eligible counters count the
\* watched items of that call alone, and at no point does an eligible counter
\* exceed its watched counter.
SecondCallDoesNotDoubleCount ==
  /\ stats.movies_eligible <= stats.movies_watched
  /\ stats.episodes_eligible <= stats.episodes_watched
  /\ (pc = "returned" /\ CalledAgain) => EligibleCounts({2})

\* What the code does: the counters of the second call are added to those
\* of the first, while the watched counters are assigned anew.
SecondCallAccumulates ==
  (pc = "returned" /\ CalledAgain) =>
     /\ EligibleCounts({1, 2})
     /\ stats.movies_watched = Cardinality(MoviesOfRun(2))

\* The second call returned with more movies counted eligible than watched.
EligibleExceedsWatched ==
  /\ pc = "returned" /\ CalledAgain
  /\ stats.movies_watched = 1 /\ stats.movies_eligible = 2
  /\ Cardinality(EligibleOfRun("movie", 2)) = 1

\* A new MediaCleanup starts from zero: its eligible counter stays within
\* its watched counter.
RestartedCountsAnew ==
  /\ pc = "returned" /\ Runs = 2 /\ ~CalledAgain
  /\ stats.movies_eligible = 1 /\ stats.movies_watched = 1
  /\ EligibleOfRun("movie", 1) # {}

\* ------------------------------------------- the accounting of one run

\* The watched items of a kind that were skipped before being counted
\* eligible: no timestamp, or within the grace period.
SkippedEarly(kind) ==
  {i \in DOMAIN outcomes :
     outcomes[i].kind = kind /\ outcomes[i].class \in {"UnknownSkip", "GraceSkip"}}

\* The accounting of a phase, from its counters <<watched, eligible,
\* skipped_tag, skipped_not_found, deleted, failed>>: classified within
\* eligible within watched, at most one eligible item not classified, and,
\* once the phase has completed, every eligible item classified and the
\* others skipped early.
PhaseAccounted(c, early, completed) ==
  LET classified == c[3] + c[4] + c[5] + c[6]
  IN /\ classified <= c[2] /\ c[2] <= c[1]
     /\ c[2] - classified <= 1
     /\ completed => (c[2] = classified /\ c[1] - c[2] = early)

\* The requests for the watched episodes issued before this run started.
EpisodesRequestedBefore ==
  IF LastMark(Len(outcomes)) = 0 THEN 0
  ELSE outcomes[LastMark(Len(outcomes))].requests["jf_episodes"]

\* cleanup_movies() has returned: run() has entered cleanup_episodes(),
\* which asks for the watched episodes first.
MoviePhaseCompleted == requests["jf_episodes"] > EpisodesRequestedBefore

\* cleanup_episodes() has returned: run() has returned, or main() has
\* exited after it did.
EpisodePhaseCompleted ==
  pc = "returned" \/ (pc = "exited" /\ error = None /\ MoviePhaseCompleted)

\* C29: in one run of a new MediaCleanup, at every point and for each phase,
\* skipped_not_found + skipped_tag + deleted + failed <= eligible <= watched
\* with at most one eligible item not yet classified; when the phase has
\* completed without a transport error the eligible items are all classified
\* and watched - eligible is the number of items skipped for a missing
\* timestamp or for the grace period.
StatisticsAccounted ==
  /\ PhaseAccounted(MovieCounters(stats), Cardinality(SkippedEarly("movie")),
                    MoviePhaseCompleted)
  /\ PhaseAccounted(EpisodeCounters(stats), Cardinality(SkippedEarly("episode")),
                    EpisodePhaseCompleted)

\* A run has returned with a movie skipped early and a movie whose delete
\* was refused, both counted.
StatisticsAccountedWitness ==
  /\ pc = "returned"
  /\ stats.movies_watched = 2 /\ stats.movies_eligible = 1
  /\ stats.movies_failed = 1 /\ Cardinality(SkippedEarly("movie")) = 1

\* A transport error left one eligible item without a class.
EligibleItemLeftUnclassified ==
  /\ pc = "failed"
  /\ stats.movies_eligible = 1
  /\ stats.movies_skipped_not_found + stats.movies_skipped_tag
       + stats.movies_deleted + stats.movies_failed = 0

\* An episode phase has completed with an episode deleted and one skipped
\* early.
EpisodesAccounted ==
  /\ EpisodePhaseCompleted
  /\ stats.episodes_watched = 2 /\ stats.episodes_deleted = 1
  /\ Cardinality(SkippedEarly("episode")) = 1

\* ------------------------------------------- no second deletion in a run

\* The movie catalog as the run finds it, and the id the chain of matchers
\* resolves a watched movie to in it.
InitialCatalog == DictById(WithFile(RadarrMovies0))
ResolvesInitially(movie) ==
  LET by_path == FirstMovieByPath(InitialCatalog, 1,
                    normalize_path(PathOf(movie), jellyfin_movie_prefix))
  IN IF TruthyInt(by_path) THEN by_path
     ELSE IF TruthyStr(movie.Tmdb)
     THEN FirstMovieByTmdb(InitialCatalog, 1, Get(movie.Tmdb))
     ELSE None

\* No catalog entry but movie m matches the watched movie, by its path or by
\* its TMDb id.
OnlyMatch(movie, m) ==
  \A i \in DOMAIN InitialCatalog :
     (\/ normalize_path(InitialCatalog[i].v.path, radarr_prefix)
           = normalize_path(PathOf(movie), jellyfin_movie_prefix)
      \/ (TruthyStr(movie.Tmdb)
          /\ StrOfOptInt(InitialCatalog[i].v.tmdbId) = Get(movie.Tmdb)))
        => InitialCatalog[i].k = m

\* Outcome i is a watched item whose delete request succeeded.
DeleteSucceeded(i) == outcomes[i].class = "Deleted" /\ DeleteCalls(outcomes[i]) = 1

\* Once the delete request for an item has succeeded, no delete is invoked
\* again in the run for the catalog entry it resolved to; a later movie past
\* the grace period that the catalog resolved to that entry (any), or one
\* that nothing else in the catalog matches, is classified not found unless
\* a transport error ends the run at it; a later episode past the grace
\* period with the same path is looked up in episode lists fetched after
\* the deletion and is not found in them.
DeletedOnce(any) ==
  \A i, j \in DOMAIN outcomes :
     (i < j /\ DeleteSucceeded(i) /\ outcomes[j].kind = outcomes[i].kind) =>
        /\ ~(DeleteInvoked(outcomes[j]) /\ outcomes[j].id = outcomes[i].id)
        /\ (/\ outcomes[i].kind = "movie" /\ outcomes[j].eligible
            /\ ResolvesInitially(outcomes[j].item) = outcomes[i].id
            /\ (any \/ OnlyMatch(outcomes[j].item, Get(outcomes[i].id)))) =>
               outcomes[j].class \in {"NotFoundSkip", "Aborted"}
        /\ (/\ outcomes[i].kind = "episode" /\ outcomes[j].eligible
            /\ PathOf(outcomes[j].item) = PathOf(outcomes[i].item)) =>
               /\ \E k \in (i + 1)..j :
                     "sonarr_episode" \in CalledEndpoints(outcomes[k].calls)
               /\ outcomes[j].class \in {"NotFoundSkip", "Aborted"}

\* C30 as stated: within one real-mode run no item is deleted twice, and
\* every later watched item that would resolve to a deleted movie is
\* classified not found.
LaterItemOfDeletedMovieNotFound == DeletedOnce(TRUE)

\* C30: within one real-mode run, once a delete request for a catalog movie
\* or an episode file has succeeded no delete is invoked for it again; a
\* later watched movie that would resolve to the deleted movie and that no
\* other catalog entry matches by path or by TMDb id is classified not
\* found, and a later watched episode with the path of a deleted episode
\* file is looked up in re-fetched episode lists and is not deleted.
NoDoubleDeletion == DeletedOnce(FALSE)

\* Two watched movies resolved to the same catalog movie: the first was
\* deleted, the second was not found.
NoDoubleDeletionWitness ==
  /\ Len(outcomes) = 2 /\ DeleteSucceeded(1)
  /\ outcomes[1].kind = "movie" /\ outcomes[2].kind = "movie"
  /\ ResolvesInitially(outcomes[2].item) = outcomes[1].id
  /\ outcomes[2].class = "NotFoundSkip"
  /\ requests["radarr_delete"] = 1

\* The second watched movie had the path of the deleted movie and the TMDb
\* id of another: the fallback resolved it to that other movie.
LaterItemResolvedByFallback ==
  /\ Len(outcomes) = 2 /\ DeleteSucceeded(1) /\ outcomes[2].kind = "movie"
  /\ ResolvesInitially(outcomes[2].item) = outcomes[1].id
  /\ outcomes[2].class \in {"Deleted", "TagSkip", "Failed"}
  /\ outcomes[2].id # outcomes[1].id

\* The same episode was watched twice: its file was deleted once, and the
\* second lookup fetched the episode lists again.
EpisodeDeletedOnce ==
  /\ Len(outcomes) = 2 /\ DeleteSucceeded(1) /\ outcomes[1].kind = "episode"
  /\ outcomes[2].item = outcomes[1].item /\ outcomes[2].class = "NotFoundSkip"
  /\ requests["sonarr_delete"] = 1

\* ------------------------------------------- the counters of a dry run

\* The episode files of the catalog whose path is that of a watched episode.
EpisodeFilesOfPath(episode) ==
  {e.episodeFileId :
     e \in {e \in UNION {Range(SonarrEpisodes0[sid]) : sid \in DOMAIN SonarrEpisodes0} :
             /\ e.hasFile
             /\ normalize_path(e.path, sonarr_prefix)
                  = normalize_path(PathOf(episode), jellyfin_tv_prefix)}}

\* Outcome i is a watched item past the grace period that the catalog matches
\* and whose catalog entry does not carry the keep tag.
Deletable(i) ==
  /\ outcomes[i].eligible /\ outcomes[i].class # "Aborted"
  /\ IF outcomes[i].kind = "movie"
     THEN /\ TruthyInt(ResolvesInitially(outcomes[i].item))
          /\ \A m \in MoviesOfId(Get(ResolvesInitially(outcomes[i].item))) :
                ~CarriesKeepTag(m)
     ELSE \E f \in EpisodeFilesOfPath(outcomes[i].item) : f # 0

\* C31: in dry-run mode the failed counters of both phases are 0 in every
\* reachable state, and every watched item that is eligible, matched and not
\* keep-tagged is counted deleted, two items that resolve to the same
\* catalog entry included.
DryRunCountsEveryDeletableItem ==
  (config # None /\ Get(config).dry_run) =>
     /\ stats.movies_failed = 0 /\ stats.episodes_failed = 0
     /\ \A i \in DOMAIN outcomes : Deletable(i) => outcomes[i].class = "Deleted"
     /\ stats.movies_deleted
          = Cardinality({i \in DOMAIN outcomes :
                           outcomes[i].kind = "movie" /\ Deletable(i)})
     /\ stats.episodes_deleted
          = Cardinality({i \in DOMAIN outcomes :
                           outcomes[i].kind = "episode" /\ Deletable(i)})

\* A dry run counted two watched movies deleted that resolve to the same
\* catalog movie, the second by its TMDb id.
DryRunCountsEveryDeletableItemWitness ==
  /\ config # None /\ Get(config).dry_run
  /\ Len(outcomes) = 2 /\ stats.movies_deleted = 2
  /\ outcomes[1].id = outcomes[2].id /\ outcomes[1].item # outcomes[2].item
  /\ requests["radarr_delete"] = 0

\* A dry run counted the same watched episode deleted twice.
DryRunCountsEpisodeTwice ==
  /\ config # None /\ Get(config).dry_run
  /\ Len(outcomes) = 2 /\ stats.episodes_deleted = 2
  /\ outcomes[1].item = outcomes[2].item /\ requests["sonarr_delete"] = 0

\* ------------------------------------------- the grouping by series

\* The most watched episodes in the lists the grouping is checked on.
MaxGrouped == 3

\* Watched episodes of two series; one file is reported under both names.
GroupedEpisodeItems ==
  { WatchedEpisode("E", "S", PlayedLongAgo),
    WatchedEpisode("E", "T", PlayedLongAgo),
    WatchedEpisode("F", "T", PlayedLongAgo),
    WatchedEpisode("G", "S", PlayedLongAgo),
    WatchedEpisode("E", "S", None) }

\* A MediaCleanup, in dry-run or real mode, whose cleanup_movies() has
\* returned with nothing watched; the clock is held and no request raises.
InitGrouping ==
  \E dry_run \in BOOLEAN :
     LET cfg == [Get(from_env(CredentialsOnly @@ LocationsUnset)) EXCEPT !.dry_run = dry_run]
         built == construct(World0, cfg, NoDown)
         fetched == Issue([built.w EXCEPT !.calls = <<>>], "jf_movies", 0)
     IN StartsIn("movies", Some(cfg), fetched, built, Some(<<>>),
                 [op |-> "get_jellyfin_watched_movies", ok |-> TRUE,
                  ret |-> Some(<<>>), calls |-> fetched.calls])

\* cleanup_episodes() fetches and groups the watched episodes.
FetchEpisodesOfSeries(watched_episodes) ==
  /\ pc = "movies" /\ todo = <<>> /\ jf_episodes = None
  /\ FetchedWatched(Issue(World, "jf_episodes", 0), "get_jellyfin_watched_episodes",
                    FALSE, watched_episodes)
  /\ UNCHANGED <<now, config, primary_user_id, radarr_keep_tag_id,
                 sonarr_keep_tag_id, exit_code, ops, outcomes, summaries>>

NextGrouping ==
  \/ \E watched_episodes \in ListsUpTo(GroupedEpisodeItems, MaxGrouped) :
        FetchEpisodesOfSeries(watched_episodes)
  \/ \E status \in Statuses : CleanupEpisode(status, NoDown)
  \/ Finally

SpecGrouping == InitGrouping /\ [][NextGrouping]_vars

\* The positions of the watched episodes in the order the nested loops of
\* cleanup_episodes reach them.
GroupedOrder(watched) ==
  LET tagged == [i \in DOMAIN watched |->
                   [Path |-> watched[i].Path, SeriesName |-> watched[i].SeriesName,
                    LastPlayedDate |-> watched[i].LastPlayedDate, pos |-> i]]
      grouped == Flatten(GroupBySeries(tagged))
  IN [k \in DOMAIN grouped |-> grouped[k].pos]

\* The episode files whose delete the series catalog refused.
RefusedFiles ==
  {Get(outcomes[i].id) : i \in {j \in DOMAIN outcomes : outcomes[j].class = "Failed"}}

\* The reference: the loop body applied to the watched episodes in the
\* order the watch-state source returned them, from `from` on, against a
\* catalog that refuses the deletes of the files in `refused`.
RECURSIVE InSourceOrder(_, _, _, _, _, _)
InSourceOrder(w, st, outs, watched, from, refused) ==
  IF from > Len(watched) THEN [w |-> w, stats |-> st, outs |-> outs]
  ELSE LET w0 == [w EXCEPT !.calls = <<>>]
           accepted == cleanup_episode(w0, watched[from], Get(config), now, HTTP_OK, NoDown)
           step == IF accepted.out.id # None /\ Get(accepted.out.id) \in refused
                   THEN cleanup_episode(w0, watched[from], Get(config), now, 500, NoDown)
                   ELSE accepted
       IN InSourceOrder(step.w, Counted(st, "episodes", step.out),
                        Append(outs, step.out), watched, from + 1, refused)

\* The world cleanup_episodes() starts in, and the reference run from it.
WorldBefore ==
  [World EXCEPT !.series_cache = None, !.episodes_cache = <<>>,
                !.sonarr_episodes = SonarrEpisodes0]
ReferenceRun ==
  InSourceOrder(WorldBefore,
                [CleanupStats EXCEPT !.episodes_watched = Len(Get(jf_episodes))],
                <<>>, Get(jf_episodes), 1, RefusedFiles)

\* The delete requests made for the items of a log of outcomes.
DeleteCallsOf(outs) ==
  UNION {{outs[i].calls[k] : k \in {n \in DOMAIN outs[i].calls :
                                       outs[i].calls[n].ep \in MutatingEndpoints}} :
         i \in DOMAIN outs}

\* The number of items of each terminal class in a log of outcomes.
ClassCounts(outs) ==
  [c \in TerminalClasses |-> Cardinality({i \in DOMAIN outs : outs[i].class = c})]

\* cleanup_episodes() has handled every watched episode, and the catalog
\* answered the deletes of one file alike.
EpisodesGroupedAndDone ==
  /\ pc = "episodes" /\ todo = <<>> /\ jf_episodes # None
  /\ \A i, j \in DOMAIN outcomes :
        (outcomes[i].class = "Failed" /\ outcomes[j].class = "Deleted")
           => outcomes[i].id # outcomes[j].id

\* No file is reported, past the grace period, under two series names.
OneSeriesPerFile(watched) ==
  \A i, j \in DOMAIN watched :
     (/\ watched[i].LastPlayedDate # None /\ watched[j].LastPlayedDate # None
      /\ normalize_path(PathOf(watched[i]), jellyfin_tv_prefix)
           = normalize_path(PathOf(watched[j]), jellyfin_tv_prefix))
        => SeriesNameOf(watched[i]) = SeriesNameOf(watched[j])

\* The grouped run against the reference: the same delete requests, the
\* same final counters and as many items of each class; and, for every list
\* (any) or for those that report no file under two series names, the same
\* class for each watched episode.
GroupingAgrees(any) ==
  EpisodesGroupedAndDone =>
     LET ref == ReferenceRun
         order == GroupedOrder(Get(jf_episodes))
     IN /\ EpisodeCounters(stats) = EpisodeCounters(ref.stats)
        /\ DeleteCallsOf(outcomes) = DeleteCallsOf(ref.outs)
        /\ ClassCounts(outcomes) = ClassCounts(ref.outs)
        /\ (any \/ Get(config).dry_run \/ OneSeriesPerFile(Get(jf_episodes))) =>
              \A k \in DOMAIN outcomes : outcomes[k].class = ref.outs[order[k]].class

\* C32 as stated: for every list of watched episodes, handling them grouped
\* by series gives each episode the class it gets when they are handled in
\* the order of the watch-state source, with the same delete calls and the
\* same final counters.
GroupingChangesOnlyTheOrder == GroupingAgrees(TRUE)

\* C32: handling the watched episodes grouped by series gives the same set
\* of delete calls, the same final episode counters and as many items of
\* each terminal class as handling them in the order of the watch-state
\* source; each episode gets the same class in dry-run mode and whenever no
\* file is reported under two series names.
GroupingKeepsCallsAndCounters == GroupingAgrees(FALSE)

\* The grouping moved an episode of the first series ahead of one of the
\* second; one was deleted and one not found, as in the reference.
GroupingKeepsCallsAndCountersWitness ==
  /\ EpisodesGroupedAndDone /\ ~Get(config).dry_run
  /\ Len(outcomes) = 3 /\ GroupedOrder(Get(jf_episodes)) = <<1, 3, 2>>
  /\ OneSeriesPerFile(Get(jf_episodes))
  /\ stats.episodes_deleted = 1 /\ stats.episodes_skipped_not_found = 1
  /\ requests["sonarr_delete"] = 1

\* A file reported under two series names: the grouping changed which of
\* the two watched episodes was deleted.
GroupingChangedWhichWasDeleted ==
  /\ EpisodesGroupedAndDone /\ Len(outcomes) = 3
  /\ GroupedOrder(Get(jf_episodes)) = <<1, 3, 2>>
  /\ outcomes[2].class = "Deleted" /\ ReferenceRun.outs[3].class = "NotFoundSkip"
  /\ outcomes[3].class = "NotFoundSkip" /\ ReferenceRun.outs[2].class = "Deleted"

\* A refused delete was counted failed, as in the reference.
GroupedDeleteRefused ==
  /\ EpisodesGroupedAndDone /\ stats.episodes_failed = 2
  /\ EpisodeCounters(ReferenceRun.stats) = EpisodeCounters(stats)

\* ------------------------------------------- the watch-state source

\* The endpoints of the watch-state source.
SourceEndpoints == {"jf_users", "jf_movies", "jf_episodes"}

\* What the watch-state source reports is not changed by a step, and what a
\* catalog holds is changed only by a step that sends it a delete.
OnlyDeletesMutate ==
  /\ jf_movies # None => jf_movies' = jf_movies
  /\ jf_episodes # None => jf_episodes' = jf_episodes
  /\ radarr_movies' # radarr_movies =>
        "radarr_delete" \in CalledEndpoints(last'.calls)
  /\ sonarr_episodes' # sonarr_episodes =>
        CalledEndpoints(last'.calls) \cap {"sonarr_delete", "sonarr_bulk"} # {}
  /\ SourceEndpoints \cap MutatingEndpoints = {}

\* The watched lists are fetched at the head of their phase, before any
\* delete of that phase in the run, and once in each run that returns.
FetchedOncePerRun ==
  /\ requests'["jf_movies"] > requests["jf_movies"] =>
        (pc = "run" /\ last'.op = "get_jellyfin_watched_movies")
  /\ requests'["jf_episodes"] > requests["jf_episodes"] =>
        (pc = "movies" /\ last'.op = "get_jellyfin_watched_episodes")
  /\ requests'["jf_movies"] <= Runs /\ requests'["jf_episodes"] <= Runs
  /\ (pc' = "returned" /\ (Runs = 1 \/ CalledAgain)) =>
        (requests'["jf_movies"] = Runs /\ requests'["jf_episodes"] = Runs)

\* C33: the watch-state source is only read: the only requests that change
\* a collaborator's data are the deletes sent to the two catalogs, and the
\* watched movies and the watched episodes are each fetched exactly once in
\* a run that completes, neither cached across runs nor fetched again after
\* a deletion.
WatchStateSourceOnlyRead == [][OnlyDeletesMutate /\ FetchedOncePerRun]_vars

\* run() returned twice on one MediaCleanup, the first time after deleting
\* a movie: each list was fetched twice, once in each run.
WatchStateSourceOnlyReadWitness ==
  /\ pc = "returned" /\ CalledAgain
  /\ requests["jf_movies"] = 2 /\ requests["jf_episodes"] = 2
  /\ requests["radarr_delete"] = 1
  /\ Len(radarr_movies) < Len(RadarrMovies0)

\* ------------------------------------------- the catalog entry of a movie

\* The step just taken read the catalog entry of the movie it resolved: it
\* went on to the keep-tag check.
ReadsCatalogEntry ==
  /\ pc = "movies" /\ HandlesItem /\ Handled.kind = "movie"
  /\ Handled.eligible /\ Handled.id # None /\ TruthyInt(Handled.id)

\* The requests for the movie list among the calls of a step.
MovieListFetches(calls) ==
  Cardinality({i \in DOMAIN calls : calls[i].ep = "radarr_movie"})

\* C34: the keep-tag lookup of the movie phase never fails on a missing
\* key: whenever cleanup_movies reads the cached catalog entry of a resolved
\* movie id, the id is a key of the movie cache the lookups searched; the
\* cache is fetched at most once in the step, and the deletion comes after
\* the read.
KeepTagLookupFindsTheEntry ==
  [][ /\ ReadsCatalogEntry =>
           /\ DictHas(CatalogSeen, Get(Handled.id))
           /\ MovieListFetches(last'.calls) <= 1
           /\ MovieListFetches(last'.calls) = 1 <=> movies_cache = None
      /\ \A i \in DOMAIN outcomes' : outcomes'[i].class # "KeyError" ]_vars

\* A movie resolved by its TMDb id in a filled cache was skipped for its
\* keep tag, read from the cached entry.
KeepTagLookupFindsTheEntryWitness ==
  /\ last.op = "cleanup_movie" /\ Len(outcomes) = 2
  /\ outcomes[2].class = "TagSkip" /\ outcomes[2].id = Some(2)
  /\ outcomes[2].calls = <<>>
  /\ movies_cache # None /\ DictHas(Get(movies_cache), 2)

\* The entry of a movie was read and the movie then deleted: the cache no
\* longer holds it.
EntryReadBeforeDeletion ==
  /\ last.op = "cleanup_movie" /\ outcomes[Len(outcomes)].class = "Deleted"
  /\ requests["radarr_delete"] = 1
  /\ ~DictHas(Get(movies_cache), Get(outcomes[Len(outcomes)].id))

\* ------------------------------------------- the field-bus bridge

\* modbus_data.get(key, default)
GetOr(field, default) == IF field = None THEN default ELSE Get(field)

\* What one Modbus read gives: an error response (None), or the values read.
\* The temperature register holds tenths of a degree.
CoilReads == {None} \cup {Some([conveyor_motor |-> m, alarm_active |-> a]) :
                             m \in BOOLEAN, a \in BOOLEAN}
InputReads == {None} \cup {Some([sensor_1 |-> s, emergency_stop |-> e]) :
                              s \in BOOLEAN, e \in BOOLEAN}
HoldingReads == {None, Some([temperature |-> 200]), Some([temperature |-> 810])}

\* The empty dict.
NoData ==
  [conveyor_motor |-> None, alarm_active |-> None, sensor_1 |-> None,
   emergency_stop |-> None, temperature |-> None]

\* FactoryIoMqttBridge.read_modbus_data: the keys of a read that answered
\* with an error are left out, and an exception gives the empty dict.
read_modbus_data(coils, inputs, holdings, raised) ==
  IF raised THEN NoData
  ELSE [conveyor_motor |-> IF coils = None THEN None ELSE Some(Get(coils).conveyor_motor),
        alarm_active |-> IF coils = None THEN None ELSE Some(Get(coils).alarm_active),
        sensor_1 |-> IF inputs = None THEN None ELSE Some(Get(inputs).sensor_1),
        emergency_stop |-> IF inputs = None THEN None ELSE Some(Get(inputs).emergency_stop),
        temperature |-> IF holdings = None THEN None ELSE Some(Get(holdings).temperature)]

\* A variant of the status in which the alarm coil is looked at first.
machine_status_alarm_first(modbus_data) ==
  IF GetOr(modbus_data.alarm_active, FALSE) THEN "Alarm"
  ELSE IF GetOr(modbus_data.emergency_stop, FALSE) THEN "Emergency_Stop"
  ELSE IF GetOr(modbus_data.conveyor_motor, FALSE) THEN "Running" ELSE "Stopped"

\* The status of create_mqtt_message: Running or Stopped by the conveyor
\* motor, overridden by the emergency stop, else by the alarm coil.
machine_status(modbus_data) ==
  LET status == IF GetOr(modbus_data.conveyor_motor, FALSE) THEN "Running" ELSE "Stopped"
  IN IF GetOr(modbus_data.emergency_stop, FALSE) THEN "Emergency_Stop"
     ELSE IF GetOr(modbus_data.alarm_active, FALSE) THEN "Alarm"
     ELSE status

\* FactoryIoMqttBridge.create_mqtt_message (the fields derived from the
\* values modelled).
create_mqtt_message(modbus_data) ==
  [status |-> machine_status(modbus_data),
   temperature |-> GetOr(modbus_data.temperature, 200),
   alarms |-> [TEMP_HIGH |-> GetOr(modbus_data.temperature, 0) > 800,
               EMERGENCY_STOP |-> GetOr(modbus_data.emergency_stop, FALSE)],
   sensors |-> [positionSensor1 |-> GetOr(modbus_data.sensor_1, FALSE),
                conveyorMotor |-> GetOr(modbus_data.conveyor_motor, FALSE)]]

\* The bridge is connected and its loop is about to read.
InitBridge == StartsAt("bridge", None)

\* A step of the bridge's loop: only the loop's position and what it holds
\* change.
BridgeStep(from, to, op, args, ret) ==
  /\ pc = from /\ pc' = to
  /\ last' = [op |-> op, args |-> args, ok |-> TRUE, ret |-> ret, calls |-> <<>>]
  /\ UNCHANGED <<env_vars, mapper_vars, config, stats, primary_user_id,
                 radarr_keep_tag_id, sonarr_keep_tag_id, todo, error, exit_code,
                 ops, requests, outcomes, summaries>>

\* run(): modbus_data = self.read_modbus_data()
ReadModbusData(coils, inputs, holdings, raised) ==
  BridgeStep("bridge", "read", "read_modbus_data", None,
             read_modbus_data(coils, inputs, holdings, raised))

\* run(): if modbus_data: mqtt_message = self.create_mqtt_message(modbus_data)
CreateMqttMessage ==
  /\ pc = "read" /\ last.ret # NoData
  /\ BridgeStep("read", "created", "create_mqtt_message", last.ret,
                create_mqtt_message(last.ret))

\* What the MQTT client answers to publish(): the message is accepted,
\* refused, or the call raises.
PublishResults == {"MQTT_ERR_SUCCESS", "MQTT_ERR_NO_CONN", "raised"}

\* run(): self.publish_data(mqtt_message). The message is handed to the
\* MQTT client; a refusal or an exception is logged as an error and
\* publish_data returns all the same.
PublishData(result) ==
  /\ pc = "created" /\ pc' = "published"
  /\ last' = [op |-> "publish_data", args |-> last.ret, ok |-> TRUE, ret |-> None,
              calls |-> <<>>,
              logged |-> IF result = "MQTT_ERR_SUCCESS" THEN "info" ELSE "error"]
  /\ UNCHANGED <<env_vars, mapper_vars, config, stats, primary_user_id,
                 radarr_keep_tag_id, sonarr_keep_tag_id, todo, error, exit_code,
                 ops, requests, outcomes, summaries>>

\* run(): the data read is empty: nothing is created or published, a
\* warning is logged.
NoDataReceived ==
  /\ pc = "read" /\ last.ret = NoData
  /\ BridgeStep("read", "warned", "warning", None, None)

\* run(): await asyncio.sleep(self.update_interval) returns and the loop
\* reads again.
NextUpdate ==
  /\ pc \in {"published", "warned"}
  /\ BridgeStep(pc, "bridge", "sleep", None, None)

\* run(): a KeyboardInterrupt, raised in read_modbus_data,
\* create_mqtt_message or publish_data (whose `except Exception` does not
\* catch it) or while the loop sleeps, leaves the loop: run()'s handler logs
\* it, the finally clause calls disconnect() and run() ends.
Cancelled ==
  /\ pc \in {"bridge", "read", "created", "published", "warned"}
  /\ BridgeStep(pc, "disconnected", "disconnect", None, None)

NextBridge ==
  \/ \E coils \in CoilReads, inputs \in InputReads, holdings \in HoldingReads,
        raised \in BOOLEAN : ReadModbusData(coils, inputs, holdings, raised)
  \/ CreateMqttMessage
  \/ \E result \in PublishResults : PublishData(result)
  \/ NoDataReceived
  \/ NextUpdate
  \/ Cancelled

SpecBridge == InitBridge /\ [][NextBridge]_vars

\* An input of the message is set: present in the data and true.
IsSet(field) == field # None /\ Get(field) = TRUE

\* C35: in the field-bus bridge the published machine status is chosen by
\* fixed precedence for every combination of the inputs: Emergency_Stop
\* whenever the emergency-stop input is set, otherwise Alarm whenever the
\* alarm coil is set, otherwise Running if the conveyor motor is on and
\* Stopped if it is off.
StatusByPrecedence ==
  last.op = "create_mqtt_message" =>
     /\ IsSet(last.args.emergency_stop) => last.ret.status = "Emergency_Stop"
     /\ (~IsSet(last.args.emergency_stop) /\ IsSet(last.args.alarm_active))
           => last.ret.status = "Alarm"
     /\ (~IsSet(last.args.emergency_stop) /\ ~IsSet(last.args.alarm_active)) =>
           last.ret.status = IF IsSet(last.args.conveyor_motor) THEN "Running"
                             ELSE "Stopped"

\* With the emergency stop, the alarm coil and the conveyor motor all set,
\* the status is Emergency_Stop.
StatusByPrecedenceWitness ==
  /\ last.op = "create_mqtt_message"
  /\ IsSet(last.args.emergency_stop) /\ IsSet(last.args.alarm_active)
  /\ IsSet(last.args.conveyor_motor)
  /\ last.ret.status = "Emergency_Stop"

\* The alarm coil set with the motor on and the inputs not read: Alarm.
AlarmOverRunning ==
  /\ last.op = "create_mqtt_message"
  /\ last.args.emergency_stop = None /\ IsSet(last.args.alarm_active)
  /\ IsSet(last.args.conveyor_motor) /\ last.ret.status = "Alarm"

\* The coils not read: the motor counts as off and the status is Stopped.
StoppedWithoutCoils ==
  /\ last.op = "create_mqtt_message"
  /\ last.args.conveyor_motor = None /\ last.ret.status = "Stopped"
====
